---- MODULE Spec2Model ----
(***************************************************************************)
(* Serpentone: keyboard / MIDI input -> dispatcher -> Textual app handlers *)
(* -> PolyphonyManager -> audio engine, with the observer's note view.     *)
(*                                                                         *)
(* Threads: the hardware listeners (rtmidi callback, pynput listener) only *)
(* post messages; the Textual event pump (main thread) applies them; the   *)
(* main thread also runs start-up (on_mount) and shutdown (server.quit).   *)
(***************************************************************************)
EXTENDS Integers, Sequences, FiniteSets, TLC

(***************************************************************************)
(* Bounds of the model.                                                    *)
(***************************************************************************)
\* Number of events the hardware listeners produce in one run.
MaxEvents == 3
\* Number of MIDI messages probed after the preset in MidiSpec.
MaxProbe == 1
\* Presses and releases the keyboard listener delivers in KeySpec, PlaySpec.
MaxKeyEvents == 4
\* MIDI messages the listener delivers in SelectSpec.
MaxSelectEvents == 3
\* Events the listeners deliver in IgnoreSpec.
MaxIgnoreEvents == 2
\* Presses and releases delivered after the preset in OctaveSpec.
MaxOctaveEvents == 2
\* Key presses the keyboard listener delivers in ConfigSpec.
MaxConfigEvents == 3
\* Longest run of octave presses applied before OctaveSpec starts.
MaxOctavePreset == 6

(***************************************************************************)
(* Program constants.                                                      *)
(***************************************************************************)
NOTE_ON == 144
NOTE_OFF == 128
DefaultOctave == 5
MinOctave == 0
MaxOctave == 10
QwertyVelocity == 64
ReferenceMidi == 69
SemitonesPerOctave == 12

(***************************************************************************)
(* Inputs the model draws from.                                            *)
(***************************************************************************)
\* Status bytes the MIDI listener delivers in Spec: Note-Off on channel 0,
\* Note-On on channel 3.
MidiFuncs == {128, 147}
\* Status bytes probed in MidiSpec: every Note-Off (0x80..0x8F) and Note-On
\* (0x90..0x9F) status plus the bytes just outside both ranges.
AllStatusBytes == 127 .. 161
MidiNotes == {60, 62}
Velocities == {0, 100}
ProbeVelocities == {0, 1, 127}
\* Characters pynput delivers: a note key, octave down, octave up.
KeyChars == {"a", "z", "x"}
ProbeKeyChars == {"a", "d", "z", "x"}
\* A pynput key that is no KeyCode (shift, ctrl ...) or has no character.
NoChar == "<none>"
\* Characters typed into the Textual app that select a tuning.
TuningChars == {"m", ","}
\* The SynthDefs of synths.py, the items of the synth list.
AvailableSynths == {"mockingboard", "simple_sine"}
\* A ListView.Highlighted event without an item.
NoItem == "<no item>"
\* Status and velocity bytes the MIDI listener delivers in SelectSpec.
\* IgnoreSpec: a status byte below the Note-Off range, a Note-On, a status
\* byte above the Note-On range; a note key and a key that is no note key.
IgnoreFuncs == {127, 147, 160}
IgnoreKeyChars == {"a", "q"}
\* OctaveSpec: the lowest note key, "g" and "y" (scale positions 7 and 8)
\* and the two octave keys.
OctaveKeyChars == {"a", "g", "y", "z", "x"}
\* ConfigSpec: a note key, octave up, and two keys that select a tuning
\* and a synth.
ConfigKeyChars == {"a", "x", "m", "v"}
SelectFuncs == {147}
SelectVelocities == {0, 64, 100}

(***************************************************************************)
(* tuning.py                                                               *)
(***************************************************************************)
\* A frequency 440 * 2^(semis/12) * num/den Hz is kept exactly, as the
\* triple of its equal-tempered semitone offset from A4 and its ratio.
Freq(semis, num, den) == [semis |-> semis, num |-> num, den |-> den]

\* str.upper, for the key strings of KeyStrings.
upper(key) ==
    CASE key = "c" -> "C"
      [] key = "d" -> "D"
      [] key = "e" -> "E"
      [] key = "f" -> "F"
      [] key = "g" -> "G"
      [] key = "a" -> "A"
      [] key = "b" -> "B"
      [] OTHER -> key

\* NOTE_NAMES with 'B' one semitone low.
NOTE_NAMES_b_flat(key) ==
    CASE key = "C" -> 0
      [] key = "D" -> 2
      [] key = "E" -> 4
      [] key = "F" -> 5
      [] key = "G" -> 7
      [] key = "A" -> 9
      [] key = "B" -> 10
      [] OTHER -> 9

\* self.NOTE_NAMES.get(key, 9)
NOTE_NAMES(key) ==
    CASE key = "C" -> 0
      [] key = "D" -> 2
      [] key = "E" -> 4
      [] key = "F" -> 5
      [] key = "G" -> 7
      [] key = "A" -> 9
      [] key = "B" -> 11
      [] OTHER -> 9

\* A table that lost its last entry.
JustIntonation_RATIOS_short ==
    << <<1, 1>>, <<16, 15>>, <<9, 8>>, <<6, 5>>, <<5, 4>>, <<4, 3>>,
       <<45, 32>>, <<3, 2>>, <<8, 5>>, <<5, 3>>, <<9, 5>> >>

JustIntonation_RATIOS ==
    << <<1, 1>>, <<16, 15>>, <<9, 8>>, <<6, 5>>, <<5, 4>>, <<4, 3>>,
       <<45, 32>>, <<3, 2>>, <<8, 5>>, <<5, 3>>, <<9, 5>>, <<15, 8>> >>

\* The Pythagorean table with the just major third in place of the ditone.
Pythagorean_RATIOS_just_third ==
    << <<1, 1>>, <<256, 243>>, <<9, 8>>, <<32, 27>>, <<5, 4>>, <<4, 3>>,
       <<729, 512>>, <<3, 2>>, <<128, 81>>, <<27, 16>>, <<16, 9>>, <<243, 128>> >>

Pythagorean_RATIOS ==
    << <<1, 1>>, <<256, 243>>, <<9, 8>>, <<32, 27>>, <<81, 64>>, <<4, 3>>,
       <<729, 512>>, <<3, 2>>, <<128, 81>>, <<27, 16>>, <<16, 9>>, <<243, 128>> >>

\* The conversion counting semitones from middle C.
EqualTemperament_frequency_from_c4(note_number) ==
    Freq(note_number - 60, 1, 1)

\* supriya.conversions: 440.0 * pow(2.0, (note_number - 69) / 12.0)
EqualTemperament_frequency(note_number) ==
    Freq(note_number - ReferenceMidi, 1, 1)

\* The scale degree counted from the note down to the key.
scale_degree_reversed(key, note_number) ==
    (NOTE_NAMES(upper(key)) - (note_number % SemitonesPerOctave))
        % SemitonesPerOctave

\* pitch_class, key_degree and scale_degree of tuning.py:41-47.
scale_degree(key, note_number) ==
    LET pitch_class == note_number % SemitonesPerOctave
        key_degree == NOTE_NAMES(upper(key))
    IN  (pitch_class - key_degree) % SemitonesPerOctave

\* RATIOS[scale_degree] with an index past the end of the list.
IndexError == [error |-> "IndexError"]

\* The base frequency taken from the pitch class, whatever the octave.
RatioBasedTuning_frequency_one_octave(RATIOS, key, note_number) ==
    LET degree == scale_degree(key, note_number)
    IN  IF degree + 1 \notin DOMAIN RATIOS THEN IndexError
        ELSE Freq((note_number % SemitonesPerOctave) + 60 - ReferenceMidi
                     - degree,
                  RATIOS[degree + 1][1], RATIOS[degree + 1][2])

\* base_freq * ratio: the tempered ratio is left in.
RatioBasedTuning_frequency_without_et_ratio(RATIOS, key, note_number) ==
    LET degree == scale_degree(key, note_number)
    IN  IF degree + 1 \notin DOMAIN RATIOS THEN IndexError
        ELSE Freq(note_number - ReferenceMidi,
                  RATIOS[degree + 1][1], RATIOS[degree + 1][2])

\* base_freq * (ratio / et_ratio): the tempered 2^(scale_degree/12) is
\* divided out of the base frequency and the table ratio put in its place.
RatioBasedTuning_frequency(RATIOS, key, note_number) ==
    LET degree == scale_degree(key, note_number)
    IN  IF degree + 1 \notin DOMAIN RATIOS THEN IndexError
        ELSE Freq(note_number - ReferenceMidi - degree,
                  RATIOS[degree + 1][1], RATIOS[degree + 1][2])

EqualTemperament == [cls |-> "EqualTemperament"]
JustIntonation(key) == [cls |-> "JustIntonation", key |-> key]
Pythagorean(key) == [cls |-> "Pythagorean", key |-> key]

midi_note_number_to_frequency(tuning, note_number) ==
    CASE tuning.cls = "EqualTemperament" ->
            EqualTemperament_frequency(note_number)
      [] tuning.cls = "JustIntonation" ->
            RatioBasedTuning_frequency(JustIntonation_RATIOS, tuning.key, note_number)
      [] tuning.cls = "Pythagorean" ->
            RatioBasedTuning_frequency(Pythagorean_RATIOS, tuning.key, note_number)

\* supriya.conversions.midi_velocity_to_amplitude: the engine's fixed curve,
\* kept as the velocity it is applied to.
midi_velocity_to_amplitude(velocity) == [curve_of |-> velocity]

(***************************************************************************)
(* State.                                                                  *)
(***************************************************************************)
VARIABLES
    pc,                      \* position of the main thread in run()
    listening,               \* input listeners entered and not yet exited
    queue,                   \* the app's message queue (post_message)
    budget,                  \* events the listeners may still produce
    sent,                    \* per source, number of commands handed over
    applied,                 \* commands applied by the app, in order
    notes,                   \* PolyphonyManager.notes: note number -> synth
    engine,                  \* the server's synths, by handle
    notifications,           \* state_manager calls made by PolyphonyManager
    theory,                  \* MusicTheory(tuning, synthdef)
    app_notes,               \* SerpentoneApp.notes
    current_tuning,          \* SerpentoneApp.current_tuning
    current_octave,          \* SerpentoneApp.current_octave
    octave,                  \* QwertyHandler.octave
    presses_to_note_numbers, \* QwertyHandler.presses_to_note_numbers
    synth_name,              \* SynthPanel.synth_name
    events,                  \* what run() has done to server and listeners
    probe,                   \* a frequency computed outside the app
    exception_handler,       \* exception_handler.py: calls and stored exceptions
    synth_list               \* SynthListPanel: the ListView as its watcher left it

vars == <<pc, listening, queue, budget, sent, applied, notes, engine,
          notifications, theory, app_notes, current_tuning, current_octave,
          octave, presses_to_note_numbers, synth_name, events, probe,
          exception_handler, synth_list>>

Sources == {"midi", "qwerty"}
\* main.py: run([MidiHandler(port), QwertyHandler()], synth)
input_handlers == <<"midi", "qwerty">>

\* Synth names a reload of synths.py can offer, in Python's string order.
ReloadableSynths == <<"bell", "mockingboard", "organ", "simple_sine">>

\* Optional[...]: None is the empty set, a value v is {v}.
None == {}

Range(seq) == {seq[k] : k \in DOMAIN seq}

\* str.__lt__ on the names above: the position in ReloadableSynths.
str_rank(name) == CHOOSE r \in DOMAIN ReloadableSynths : ReloadableSynths[r] = name

\* sorted(names) for a duplicate-free list, given as the set of its elements.
RECURSIVE sorted(_)
sorted(names) ==
    IF names = {} THEN <<>>
    ELSE LET first == CHOOSE n \in names :
                          \A o \in names : str_rank(n) <= str_rank(o)
         IN  <<first>> \o sorted(names \ {first})

\* SynthListPanel.compose: one item per name of sorted(available_synths),
\* no highlight yet.  watched tells that watch_available_synths was the last
\* to touch the list; old .. current_highlight are the locals of that call.
ComposedList ==
    [available_synths |-> AvailableSynths, items |-> sorted(AvailableSynths),
     index |-> None, watched |-> FALSE, old |-> <<>>, new |-> <<>>,
     removes |-> <<>>, inserts |-> <<>>, current_highlight |-> None]

\* threading.local(): an attribute missing in a thread's storage.
NoException == [exc |-> "none"]

\* The threads that use exception_handler.py: the app's thread, where a
\* callable given to call_from_thread runs, and the listeners' threads.
Threads == {"ui", "midi", "qwerty"}

\* exception_handler.py as imported: _exception_store is empty in every
\* thread, no call is under way and the program has not crashed.
NoCalls ==
    [store |-> [t \in Threads |-> NoException], pc |-> "idle",
     caller |-> "", func |-> "", context |-> "", checks |-> <<>>,
     crashed |-> FALSE]

\* No frequency was computed outside the app.
NoProbe == [note_number |-> -1]

\* One entry of events: what was done, and to whom.
Event(what, who) == [what |-> what, who |-> who]

EmptyDict == [k \in {} |-> 0]
Values(d) == {d[k] : k \in DOMAIN d}
DictSet(d, k, v) == [x \in DOMAIN d \cup {k} |-> IF x = k THEN v ELSE d[x]]
DictDel(d, k) == [x \in DOMAIN d \ {k} |-> d[x]]

(***************************************************************************)
(* play.py: PolyphonyManager.  pm is the manager with the server it acts   *)
(* on: [notes, engine, notifications].                                     *)
(***************************************************************************)
\* server.add_synth(...): the new synth's handle is its index in engine.
add_synth(eng, synthdef, frequency, amplitude) ==
    Append(eng, [synthdef |-> synthdef, frequency |-> frequency,
                 amplitude |-> amplitude, frees |-> 0])

\* synth.free(): one more free request for that handle.
synth_free(eng, synth) == [eng EXCEPT ![synth].frees = @ + 1]

\* state_manager.add_note / remove_note: the note-started and note-stopped
\* notifications, in the order they are emitted.
add_note(log, note_number, frequency, velocity) ==
    Append(log, [kind |-> "add_note", note_number |-> note_number,
                 frequency |-> frequency, velocity |-> velocity])

remove_note(log, note_number) ==
    Append(log, [kind |-> "remove_note", note_number |-> note_number])

RECURSIVE FreeEach(_, _)
FreeEach(eng, synths) ==
    IF synths = {} THEN eng
    ELSE LET synth == CHOOSE s \in synths : TRUE
         IN  FreeEach(synth_free(eng, synth), synths \ {synth})

free_all(pm) ==
    [pm EXCEPT !.engine = FreeEach(pm.engine, Values(pm.notes))]

\* note_on without "bail if we already started this note".
note_on_without_bail(pm, th, note_number, velocity) ==
    LET frequency == midi_note_number_to_frequency(th.tuning, note_number)
        amplitude == midi_velocity_to_amplitude(velocity)
        eng == add_synth(pm.engine, th.synthdef, frequency, amplitude)
    IN  [notes |-> DictSet(pm.notes, note_number, Len(eng)),
         engine |-> eng,
         notifications |->
             add_note(pm.notifications, note_number, frequency, velocity)]

\* note_on starting a fresh voice for a note that is already sounding.
note_on_retrigger(pm, th, note_number, velocity) ==
    IF note_number \in DOMAIN pm.notes
    THEN note_on_without_bail(
             [pm EXCEPT !.engine = synth_free(@, pm.notes[note_number])],
             th, note_number, velocity)
    ELSE note_on_without_bail(pm, th, note_number, velocity)

note_on(pm, th, note_number, velocity) ==
    IF note_number \in DOMAIN pm.notes
    THEN pm
    ELSE LET frequency == midi_note_number_to_frequency(th.tuning, note_number)
             amplitude == midi_velocity_to_amplitude(velocity)
             eng == add_synth(pm.engine, th.synthdef, frequency, amplitude)
         IN  [notes |-> DictSet(pm.notes, note_number, Len(eng)),
              engine |-> eng,
              notifications |->
                  add_note(pm.notifications, note_number, frequency, velocity)]

\* note_off without "bail if we already stopped this note".
note_off_without_bail(pm, note_number) ==
    [notes |-> DictDel(pm.notes, note_number),
     engine |-> IF note_number \in DOMAIN pm.notes
                THEN synth_free(pm.engine, pm.notes[note_number])
                ELSE pm.engine,
     notifications |-> remove_note(pm.notifications, note_number)]

note_off(pm, note_number) ==
    IF note_number \notin DOMAIN pm.notes
    THEN pm
    ELSE [notes |-> DictDel(pm.notes, note_number),
          engine |-> synth_free(pm.engine, pm.notes[note_number]),
          notifications |-> remove_note(pm.notifications, note_number)]

(***************************************************************************)
(* tui.py: AppDispatch.  Every hand-over is one post_message; n is the     *)
(* position of the command among those of its source.                      *)
(***************************************************************************)
\* A queue that hands the newest message to the pump first.
post_message_in_front(q, message) == <<message>> \o q

post_message(q, message) == Append(q, message)

AppDispatch_handle_midi_event(q, n, func, note_number, velocity) ==
    post_message(q, [type |-> "HandleMidiEvent", src |-> "midi", n |-> n,
                     func |-> func, note_number |-> note_number,
                     velocity |-> velocity])

AppDispatch_handle_key_press(q, n, key_char) ==
    post_message(q, [type |-> "HandleKeyPress", src |-> "qwerty", n |-> n,
                     key_char |-> key_char])

AppDispatch_handle_key_release(q, n, key_char) ==
    post_message(q, [type |-> "HandleKeyRelease", src |-> "qwerty", n |-> n,
                     key_char |-> key_char])

(***************************************************************************)
(* tui.py: SerpentoneApp message handlers, as functions of the state the   *)
(* handler reads and writes:                                               *)
(*   st = [notes, engine, notifications, app_notes, current_octave,        *)
(*         octave, presses_to_note_numbers, applied]                       *)
(***************************************************************************)
PM(st) ==
    [notes |-> st.notes, engine |-> st.engine,
     notifications |-> st.notifications]

WithPM(st, pm) ==
    [st EXCEPT !.notes = pm.notes, !.engine = pm.engine,
               !.notifications = pm.notifications]

\* The handler returned: the command is applied.  call is the
\* PolyphonyManager call the handler made, nsynths the number of add-voice
\* requests and nnotif the number of notifications made so far.
Applied(st, message, call) ==
    [st EXCEPT !.applied =
        Append(@, [msg |-> message, call |-> call,
                   nsynths |-> Len(st.engine),
                   nnotif |-> Len(st.notifications)])]

NoCall == [op |-> "none"]
NoteOnCall(note_number, velocity) ==
    [op |-> "note_on", note_number |-> note_number, velocity |-> velocity]
NoteOffCall(note_number) == [op |-> "note_off", note_number |-> note_number]

\* Stopping the note and leaving self.notes as it is.
StopNote_keeping_view(st, note_number) ==
    WithPM(st, note_off(PM(st), note_number))

\* self.polyphony_manager.note_off(n); if n in self.notes: del self.notes[n]
StopNote(st, note_number) ==
    [WithPM(st, note_off(PM(st), note_number)) EXCEPT
        !.app_notes = IF note_number \in DOMAIN @
                      THEN DictDel(@, note_number) ELSE @]

\* self.polyphony_manager.note_on(n, v); self.notes[n] = {frequency, velocity}
StartNote(st, th, note_number, velocity) ==
    LET frequency == midi_note_number_to_frequency(th.tuning, note_number)
    IN  [WithPM(st, note_on(PM(st), th, note_number, velocity)) EXCEPT
            !.app_notes = DictSet(@, note_number,
                                  [frequency |-> frequency,
                                   velocity |-> velocity])]

\* The handler without the velocity-0 test.
on_serpentone_app_handle_midi_event_no_velocity_test(st, th, message) ==
    IF NOTE_ON <= message.func /\ message.func < NOTE_ON + 16
    THEN Applied(StartNote(st, th, message.note_number, message.velocity),
                 message,
                 NoteOnCall(message.note_number, message.velocity))
    ELSE IF NOTE_OFF <= message.func /\ message.func < NOTE_OFF + 16
         THEN Applied(StopNote(st, message.note_number), message,
                      NoteOffCall(message.note_number))
         ELSE Applied(st, message, NoCall)

\* The handler taking Note-Off on channel 0 only.
on_serpentone_app_handle_midi_event_channel_0(st, th, message) ==
    IF NOTE_ON <= message.func /\ message.func < NOTE_ON + 16
    THEN IF message.velocity = 0
         THEN Applied(StopNote(st, message.note_number), message,
                      NoteOffCall(message.note_number))
         ELSE Applied(StartNote(st, th, message.note_number, message.velocity),
                      message,
                      NoteOnCall(message.note_number, message.velocity))
    ELSE IF message.func = NOTE_OFF
         THEN Applied(StopNote(st, message.note_number), message,
                      NoteOffCall(message.note_number))
         ELSE Applied(st, message, NoCall)

on_serpentone_app_handle_midi_event(st, th, message) ==
    IF NOTE_ON <= message.func /\ message.func < NOTE_ON + 16
    THEN IF message.velocity = 0
         THEN Applied(StopNote(st, message.note_number), message,
                      NoteOffCall(message.note_number))
         ELSE Applied(StartNote(st, th, message.note_number, message.velocity),
                      message,
                      NoteOnCall(message.note_number, message.velocity))
    ELSE IF NOTE_OFF <= message.func /\ message.func < NOTE_OFF + 16
         THEN Applied(StopNote(st, message.note_number), message,
                      NoteOffCall(message.note_number))
         ELSE Applied(st, message, NoCall)

\* A scale string that goes on to "m".
ScaleKeys_with_m ==
    <<"a", "w", "s", "e", "d", "f", "t", "g", "y", "h", "u", "j", "k", "o",
      "l", "p", ";", "'", "m">>

\* "awsedftgyhujkolp;'"
ScaleKeys ==
    <<"a", "w", "s", "e", "d", "f", "t", "g", "y", "h", "u", "j", "k", "o",
      "l", "p", ";", "'">>

\* str.index taken as counting from 1.
qwerty_key_to_pitch_number_one_based(key) ==
    IF \E i \in DOMAIN ScaleKeys : ScaleKeys[i] = key
    THEN CHOOSE i \in DOMAIN ScaleKeys : ScaleKeys[i] = key
    ELSE -1

\* str.index: the position of the character, -1 for ValueError.
qwerty_key_to_pitch_number(key) ==
    IF \E i \in DOMAIN ScaleKeys : ScaleKeys[i] = key
    THEN (CHOOSE i \in DOMAIN ScaleKeys : ScaleKeys[i] = key) - 1
    ELSE -1

Max(a, b) == IF a >= b THEN a ELSE b
Min(a, b) == IF a <= b THEN a ELSE b

\* The handler changing the octave without max() and min().
on_serpentone_app_handle_key_press_unclamped(st, th, message) ==
    IF message.key_char = "z"
    THEN LET o == st.octave - 1
         IN  Applied([st EXCEPT !.octave = o, !.current_octave = o],
                     message, NoCall)
    ELSE IF message.key_char = "x"
    THEN LET o == st.octave + 1
         IN  Applied([st EXCEPT !.octave = o, !.current_octave = o],
                     message, NoCall)
    ELSE IF message.key_char \in DOMAIN st.presses_to_note_numbers
    THEN Applied(st, message, NoCall)
    ELSE LET pitch == qwerty_key_to_pitch_number(message.key_char)
             note_number == pitch + st.octave * SemitonesPerOctave
             velocity == QwertyVelocity
             stashed == [st EXCEPT !.presses_to_note_numbers =
                            DictSet(@, message.key_char, note_number)]
         IN  IF pitch = -1
             THEN Applied(st, message, NoCall)
             ELSE Applied(StartNote(stashed, th, note_number, velocity),
                          message, NoteOnCall(note_number, velocity))

\* The handler looking the key up with str.find, which raises nothing.
on_serpentone_app_handle_key_press_find(st, th, message) ==
    IF message.key_char = "z"
    THEN LET o == Max(st.octave - 1, MinOctave)
         IN  Applied([st EXCEPT !.octave = o, !.current_octave = o],
                     message, NoCall)
    ELSE IF message.key_char = "x"
    THEN LET o == Min(st.octave + 1, MaxOctave)
         IN  Applied([st EXCEPT !.octave = o, !.current_octave = o],
                     message, NoCall)
    ELSE IF message.key_char \in DOMAIN st.presses_to_note_numbers
    THEN Applied(st, message, NoCall)
    ELSE LET pitch == qwerty_key_to_pitch_number(message.key_char)
             note_number == pitch + st.octave * SemitonesPerOctave
             velocity == QwertyVelocity
             stashed == [st EXCEPT !.presses_to_note_numbers =
                            DictSet(@, message.key_char, note_number)]
         IN  Applied(StartNote(stashed, th, note_number, velocity),
                     message, NoteOnCall(note_number, velocity))

on_serpentone_app_handle_key_press(st, th, message) ==
    IF message.key_char = "z"
    THEN LET o == Max(st.octave - 1, MinOctave)
         IN  Applied([st EXCEPT !.octave = o, !.current_octave = o],
                     message, NoCall)
    ELSE IF message.key_char = "x"
    THEN LET o == Min(st.octave + 1, MaxOctave)
         IN  Applied([st EXCEPT !.octave = o, !.current_octave = o],
                     message, NoCall)
    ELSE IF message.key_char \in DOMAIN st.presses_to_note_numbers
    THEN Applied(st, message, NoCall)
    ELSE LET pitch == qwerty_key_to_pitch_number(message.key_char)
             note_number == pitch + st.octave * SemitonesPerOctave
             velocity == QwertyVelocity
             stashed == [st EXCEPT !.presses_to_note_numbers =
                            DictSet(@, message.key_char, note_number)]
         IN  IF pitch = -1
             THEN Applied(st, message, NoCall)
             ELSE Applied(StartNote(stashed, th, note_number, velocity),
                          message, NoteOnCall(note_number, velocity))

on_serpentone_app_handle_key_release(st, message) ==
    IF message.key_char \notin DOMAIN st.presses_to_note_numbers
    THEN Applied(st, message, NoCall)
    ELSE LET note_number == st.presses_to_note_numbers[message.key_char]
             popped == [st EXCEPT !.presses_to_note_numbers =
                            DictDel(@, message.key_char)]
         IN  Applied(StopNote(popped, note_number), message,
                     NoteOffCall(note_number))

\* The handler Textual's pump selects for a message.
Handle(st, th, message) ==
    CASE message.type = "HandleMidiEvent" ->
            on_serpentone_app_handle_midi_event(st, th, message)
      [] message.type = "HandleKeyPress" ->
            on_serpentone_app_handle_key_press(st, th, message)
      [] message.type = "HandleKeyRelease" ->
            on_serpentone_app_handle_key_release(st, message)

\* tui.py on_key: the tuning a typed character selects.
on_key_tuning(character) ==
    CASE character = "n" -> [tuning |-> JustIntonation("A"), name |-> "JustA"]
      [] character = "m" ->
            [tuning |-> EqualTemperament, name |-> "EqualTemperament"]
      [] character = "," -> [tuning |-> JustIntonation("C"), name |-> "JustC"]
      [] character = "." -> [tuning |-> Pythagorean("C"), name |-> "PythC"]
      [] character = "/" -> [tuning |-> Pythagorean("A"), name |-> "PythA"]

(***************************************************************************)
(* The state the handlers work on, and its write-back.                     *)
(***************************************************************************)
Cur ==
    [notes |-> notes, engine |-> engine, notifications |-> notifications,
     app_notes |-> app_notes, current_octave |-> current_octave,
     octave |-> octave, presses_to_note_numbers |-> presses_to_note_numbers,
     applied |-> applied]

Becomes(st) ==
    /\ notes' = st.notes
    /\ engine' = st.engine
    /\ notifications' = st.notifications
    /\ app_notes' = st.app_notes
    /\ current_octave' = st.current_octave
    /\ octave' = st.octave
    /\ presses_to_note_numbers' = st.presses_to_note_numbers
    /\ applied' = st.applied

appVars ==
    <<notes, engine, notifications, app_notes, current_octave, octave,
      presses_to_note_numbers, applied>>

\* main.py run(): the objects as wired before app.run().
InitApp ==
    [notes |-> EmptyDict, engine |-> <<>>, notifications |-> <<>>,
     app_notes |-> EmptyDict, current_octave |-> 5,
     octave |-> DefaultOctave, presses_to_note_numbers |-> EmptyDict,
     applied |-> <<>>]

InitTheory == [tuning |-> EqualTemperament, synthdef |-> "simple_sine"]

Init ==
    /\ pc = "idle"
    /\ listening = {}
    /\ queue = <<>>
    /\ budget = MaxEvents
    /\ sent = [s \in Sources |-> 0]
    /\ theory = InitTheory
    /\ current_tuning = "EqualTemperament"
    /\ notes = InitApp.notes
    /\ engine = InitApp.engine
    /\ notifications = InitApp.notifications
    /\ app_notes = InitApp.app_notes
    /\ current_octave = InitApp.current_octave
    /\ octave = InitApp.octave
    /\ presses_to_note_numbers = InitApp.presses_to_note_numbers
    /\ applied = InitApp.applied
    /\ synth_name = ""
    /\ events = <<>>
    /\ probe = NoProbe
    /\ exception_handler = NoCalls
    /\ synth_list = ComposedList

(***************************************************************************)
(* main.py run(): start-up on the main thread.                             *)
(***************************************************************************)
\* app.run() -> on_mount -> start_server_and_listener -> server.boot()
app_run ==
    /\ pc = "idle"
    /\ pc' = "booting"
    /\ UNCHANGED <<listening, queue, budget, sent, theory, current_tuning>>
    /\ UNCHANGED appVars
    /\ synth_name' = theory.synthdef
    /\ events' = Append(events, Event("boot", "server"))
    /\ UNCHANGED probe
    /\ UNCHANGED <<exception_handler, synth_list>>

\* on_boot: load_synthdefs (add_synthdefs, sync); server.boot() returns.
on_boot ==
    /\ pc = "booting"
    /\ pc' = "booted"
    /\ UNCHANGED <<listening, queue, budget, sent, theory, current_tuning>>
    /\ UNCHANGED appVars
    /\ events' = events \o <<Event("booted", "server"),
                            Event("synthdefs_loaded", "server")>>
    /\ UNCHANGED synth_name
    /\ UNCHANGED probe
    /\ UNCHANGED <<exception_handler, synth_list>>

\* Listeners entered while the server is still booting.
listener_enter_while_booting ==
    /\ pc \in {"booting", "booted"}
    /\ \E i \in DOMAIN input_handlers :
          /\ input_handlers[i] \notin listening
          /\ \A j \in 1 .. (i - 1) : input_handlers[j] \in listening
          /\ listening' = listening \cup {input_handlers[i]}
          /\ events' = Append(events, Event("enter", input_handlers[i]))
    /\ UNCHANGED synth_name
    /\ UNCHANGED <<pc, queue, budget, sent, theory, current_tuning>>
    /\ UNCHANGED appVars
    /\ UNCHANGED probe
    /\ UNCHANGED <<exception_handler, synth_list>>

\* for listener in listeners: listener.__enter__()
listener_enter ==
    /\ pc = "booted"
    /\ \E i \in DOMAIN input_handlers :
          /\ input_handlers[i] \notin listening
          /\ \A j \in 1 .. (i - 1) : input_handlers[j] \in listening
          /\ listening' = listening \cup {input_handlers[i]}
          /\ events' = Append(events, Event("enter", input_handlers[i]))
    /\ UNCHANGED synth_name
    /\ UNCHANGED <<pc, queue, budget, sent, theory, current_tuning>>
    /\ UNCHANGED appVars
    /\ UNCHANGED probe
    /\ UNCHANGED <<exception_handler, synth_list>>

\* on_mount returns: the pump goes on to the posted messages.
on_mount_return ==
    /\ pc = "booted"
    /\ \A i \in DOMAIN input_handlers : input_handlers[i] \in listening
    /\ pc' = "running"
    /\ UNCHANGED <<listening, queue, budget, sent, theory, current_tuning>>
    /\ UNCHANGED appVars
    /\ UNCHANGED <<synth_name, events>>
    /\ UNCHANGED probe
    /\ UNCHANGED <<exception_handler, synth_list>>

(***************************************************************************)
(* input.py: the listener callbacks, on the listeners' threads.            *)
(***************************************************************************)
\* A hand-off that waits until the app has applied the earlier commands.
MidiHandler_handle_and_wait(funcs, velocities) ==
    /\ "midi" \in listening
    /\ budget > 0
    /\ queue = <<>>
    /\ \E func \in funcs, note_number \in MidiNotes, velocity \in velocities :
          queue' = AppDispatch_handle_midi_event(
                       queue, sent["midi"] + 1, func, note_number, velocity)
    /\ sent' = [sent EXCEPT !["midi"] = @ + 1]
    /\ budget' = budget - 1
    /\ UNCHANGED <<pc, listening, theory, current_tuning>>
    /\ UNCHANGED appVars
    /\ UNCHANGED <<synth_name, events>>
    /\ UNCHANGED probe
    /\ UNCHANGED <<exception_handler, synth_list>>

MidiHandler_handle(funcs, velocities) ==
    /\ "midi" \in listening
    /\ budget > 0
    /\ \E func \in funcs, note_number \in MidiNotes, velocity \in velocities :
          queue' = AppDispatch_handle_midi_event(
                       queue, sent["midi"] + 1, func, note_number, velocity)
    /\ sent' = [sent EXCEPT !["midi"] = @ + 1]
    /\ budget' = budget - 1
    /\ UNCHANGED <<pc, listening, theory, current_tuning>>
    /\ UNCHANGED appVars
    /\ UNCHANGED <<synth_name, events>>
    /\ UNCHANGED probe
    /\ UNCHANGED <<exception_handler, synth_list>>

\* on_press changing the octave itself, on the listener's thread.
QwertyHandler_on_press_in_thread(chars) ==
    /\ "qwerty" \in listening
    /\ budget > 0
    /\ budget' = budget - 1
    /\ \E char \in chars \cup {NoChar} :
          IF char = NoChar
          THEN UNCHANGED <<queue, sent, octave, current_octave>>
          ELSE IF char = "z"
          THEN /\ octave' = Max(octave - 1, MinOctave)
               /\ current_octave' = octave'
               /\ UNCHANGED <<queue, sent>>
          ELSE /\ queue' = AppDispatch_handle_key_press(
                               queue, sent["qwerty"] + 1, char)
               /\ sent' = [sent EXCEPT !["qwerty"] = @ + 1]
               /\ UNCHANGED <<octave, current_octave>>
    /\ UNCHANGED <<pc, listening, theory, current_tuning>>
    /\ UNCHANGED <<notes, engine, notifications, app_notes,
                   presses_to_note_numbers, applied>>
    /\ UNCHANGED <<synth_name, events>>
    /\ UNCHANGED probe
    /\ UNCHANGED <<exception_handler, synth_list>>

QwertyHandler_on_press(chars) ==
    /\ "qwerty" \in listening
    /\ budget > 0
    /\ budget' = budget - 1
    /\ \E char \in chars \cup {NoChar} :
          IF char = NoChar
          THEN UNCHANGED <<queue, sent>>
          ELSE /\ queue' = AppDispatch_handle_key_press(
                               queue, sent["qwerty"] + 1, char)
               /\ sent' = [sent EXCEPT !["qwerty"] = @ + 1]
    /\ UNCHANGED <<pc, listening, theory, current_tuning>>
    /\ UNCHANGED appVars
    /\ UNCHANGED <<synth_name, events>>
    /\ UNCHANGED probe
    /\ UNCHANGED <<exception_handler, synth_list>>

QwertyHandler_on_release(chars) ==
    /\ "qwerty" \in listening
    /\ budget > 0
    /\ budget' = budget - 1
    /\ \E char \in chars \cup {NoChar} :
          IF char = NoChar
          THEN UNCHANGED <<queue, sent>>
          ELSE /\ queue' = AppDispatch_handle_key_release(
                               queue, sent["qwerty"] + 1, char)
               /\ sent' = [sent EXCEPT !["qwerty"] = @ + 1]
    /\ UNCHANGED <<pc, listening, theory, current_tuning>>
    /\ UNCHANGED appVars
    /\ UNCHANGED <<synth_name, events>>
    /\ UNCHANGED probe
    /\ UNCHANGED <<exception_handler, synth_list>>

(***************************************************************************)
(* tui.py: the Textual event pump, on the main thread inside app.run().    *)
(***************************************************************************)
\* A pump that keeps running while the server quits.
PumpRunning_while_quitting == pc \in {"running", "exited", "freed", "settled"}

\* The pump runs between the return of on_mount and the return of app.run().
PumpRunning == pc = "running"

\* The message the pump takes next.
NextMessage(q) == Head(q)
Rest(q) == Tail(q)

process_message ==
    /\ PumpRunning
    /\ queue # <<>>
    /\ Becomes(Handle(Cur, theory, NextMessage(queue)))
    /\ queue' = Rest(queue)
    /\ UNCHANGED <<pc, listening, budget, sent, theory, current_tuning>>
    /\ UNCHANGED <<synth_name, events>>
    /\ UNCHANGED probe
    /\ UNCHANGED <<exception_handler, synth_list>>

on_key ==
    /\ PumpRunning
    /\ \E character \in TuningChars :
          /\ theory' = [theory EXCEPT !.tuning = on_key_tuning(character).tuning]
          /\ current_tuning' = on_key_tuning(character).name
    /\ UNCHANGED <<pc, listening, queue, budget, sent>>
    /\ UNCHANGED appVars
    /\ UNCHANGED <<synth_name, events>>
    /\ UNCHANGED probe
    /\ UNCHANGED <<exception_handler, synth_list>>

\* activate_synth silencing the voices of the instrument it leaves.
activate_synth_and_free ==
    /\ PumpRunning
    /\ \E item \in AvailableSynths \cup {NoItem} :
          IF item = NoItem
          THEN UNCHANGED <<theory, synth_name>> /\ UNCHANGED appVars
          ELSE /\ theory' = [theory EXCEPT !.synthdef = item]
               /\ synth_name' = item
               /\ Becomes(WithPM(Cur, free_all(PM(Cur))))
    /\ UNCHANGED <<pc, listening, queue, budget, sent, current_tuning, events>>
    /\ UNCHANGED probe
    /\ UNCHANGED <<exception_handler, synth_list>>

\* on_list_view_highlighted -> activate_synth(event.item)
activate_synth ==
    /\ PumpRunning
    /\ \E item \in AvailableSynths \cup {NoItem} :
          IF item = NoItem
          THEN UNCHANGED <<theory, synth_name>>
          ELSE /\ theory' = [theory EXCEPT !.synthdef = item]
               /\ synth_name' = item
    /\ UNCHANGED <<pc, listening, queue, budget, sent, current_tuning, events>>
    /\ UNCHANGED appVars
    /\ UNCHANGED probe
    /\ UNCHANGED <<exception_handler, synth_list>>

(***************************************************************************)
(* main.py run(): shutdown on the main thread.                             *)
(***************************************************************************)
\* The app left while the server is still booting.
app_exit_while_booting ==
    /\ pc \in {"booting", "running"}
    /\ pc' = "exited"
    /\ UNCHANGED <<listening, queue, budget, sent, theory, current_tuning>>
    /\ UNCHANGED appVars
    /\ events' = Append(events, Event("quitting", "server"))
    /\ UNCHANGED synth_name
    /\ UNCHANGED probe
    /\ UNCHANGED <<exception_handler, synth_list>>

\* app.run() returns; server.quit() is called.
app_exit ==
    /\ pc = "running"
    /\ pc' = "exited"
    /\ UNCHANGED <<listening, queue, budget, sent, theory, current_tuning>>
    /\ UNCHANGED appVars
    /\ events' = Append(events, Event("quitting", "server"))
    /\ UNCHANGED synth_name
    /\ UNCHANGED probe
    /\ UNCHANGED <<exception_handler, synth_list>>

\* on_quitting: polyphony.free_all()
on_quitting_free_all ==
    /\ pc = "exited"
    /\ pc' = "freed"
    /\ Becomes(WithPM(Cur, free_all(PM(Cur))))
    /\ UNCHANGED <<listening, queue, budget, sent, theory, current_tuning>>
    /\ events' = Append(events, Event("free_all", "polyphony"))
    /\ UNCHANGED synth_name
    /\ UNCHANGED probe
    /\ UNCHANGED <<exception_handler, synth_list>>

\* on_quitting: time.sleep(0.5)
on_quitting_sleep ==
    /\ pc = "freed"
    /\ pc' = "settled"
    /\ UNCHANGED <<listening, queue, budget, sent, theory, current_tuning>>
    /\ UNCHANGED appVars
    /\ events' = Append(events, Event("sleep", "main"))
    /\ UNCHANGED synth_name
    /\ UNCHANGED probe
    /\ UNCHANGED <<exception_handler, synth_list>>

\* on_quitting: for listener in listeners: listener.__exit__(None, None, None)
listener_exit ==
    /\ pc = "settled"
    /\ \E i \in DOMAIN input_handlers :
          /\ input_handlers[i] \in listening
          /\ \A j \in 1 .. (i - 1) : input_handlers[j] \notin listening
          /\ listening' = listening \ {input_handlers[i]}
          /\ events' = Append(events, Event("exit", input_handlers[i]))
    /\ UNCHANGED synth_name
    /\ UNCHANGED <<pc, queue, budget, sent, theory, current_tuning>>
    /\ UNCHANGED appVars
    /\ UNCHANGED probe
    /\ UNCHANGED <<exception_handler, synth_list>>

\* A server that quits without running the QUITTING callback first.
server_quit_without_callback ==
    /\ pc = "exited"
    /\ pc' = "stopped"
    /\ UNCHANGED <<listening, queue, budget, sent, theory, current_tuning>>
    /\ UNCHANGED appVars
    /\ events' = Append(events, Event("quit", "server"))
    /\ UNCHANGED synth_name
    /\ UNCHANGED probe
    /\ UNCHANGED <<exception_handler, synth_list>>

\* on_quitting returns and the server quits.
server_quit ==
    /\ pc = "settled"
    /\ listening = {}
    /\ pc' = "stopped"
    /\ UNCHANGED <<listening, queue, budget, sent, theory, current_tuning>>
    /\ UNCHANGED appVars
    /\ events' = Append(events, Event("quit", "server"))
    /\ UNCHANGED synth_name
    /\ UNCHANGED probe
    /\ UNCHANGED <<exception_handler, synth_list>>

Next ==
    \/ app_run
    \/ on_boot
    \/ listener_enter
    \/ on_mount_return
    \/ MidiHandler_handle(MidiFuncs, Velocities)
    \/ QwertyHandler_on_press(KeyChars)
    \/ QwertyHandler_on_release(KeyChars)
    \/ process_message
    \/ on_key
    \/ app_exit
    \/ on_quitting_free_all
    \/ on_quitting_sleep
    \/ listener_exit
    \/ server_quit

Spec == Init /\ [][Next]_vars

\* The lifecycle state the main thread's position in run() stands for.
Lifecycle ==
    CASE pc = "idle" -> "Idle"
      [] pc = "booting" -> "EngineBooting"
      [] pc \in {"booted", "running"} -> "Ready"
      [] pc \in {"exited", "freed", "settled"} -> "ShuttingDown"
      [] pc = "stopped" -> "Stopped"

(***************************************************************************)
(* MidiSpec: the running app with some notes already started over MIDI;    *)
(* the MIDI listener then delivers messages with any status byte.          *)
(***************************************************************************)
RECURSIVE Replay(_, _, _)
Replay(st, th, messages) ==
    IF messages = <<>> THEN st
    ELSE Replay(Handle(st, th, Head(messages)), th, Tail(messages))

\* Note-On messages (channel 0, velocity 100) for the given notes.
PresetMessages(preset) ==
    [i \in DOMAIN preset |->
        [type |-> "HandleMidiEvent", src |-> "midi", n |-> i,
         func |-> NOTE_ON, note_number |-> preset[i], velocity |-> 100]]

Presets == {<<>>, <<60>>, <<62>>, <<60, 62>>}

\* events once on_mount has returned.
StartedEvents ==
    <<Event("boot", "server"), Event("booted", "server"),
      Event("synthdefs_loaded", "server")>>
    \o [i \in DOMAIN input_handlers |-> Event("enter", input_handlers[i])]

InitMidi ==
    /\ pc = "running"
    /\ listening = {"midi", "qwerty"}
    /\ queue = <<>>
    /\ budget = MaxProbe
    /\ theory = InitTheory
    /\ current_tuning = "EqualTemperament"
    /\ synth_name = InitTheory.synthdef
    /\ events = StartedEvents
    /\ \E preset \in Presets :
          LET st == Replay(InitApp, InitTheory, PresetMessages(preset))
          IN  /\ sent = [s \in Sources |-> IF s = "midi" THEN Len(preset) ELSE 0]
              /\ notes = st.notes
              /\ engine = st.engine
              /\ notifications = st.notifications
              /\ app_notes = st.app_notes
              /\ current_octave = st.current_octave
              /\ octave = st.octave
              /\ presses_to_note_numbers = st.presses_to_note_numbers
              /\ applied = st.applied
    /\ probe = NoProbe
    /\ exception_handler = NoCalls
    /\ synth_list = ComposedList

NextMidi ==
    \/ MidiHandler_handle(AllStatusBytes, ProbeVelocities)
    \/ process_message

MidiSpec == InitMidi /\ [][NextMidi]_vars

\* The app once on_mount has returned, with n events for the listeners.
InitRunning(n) ==
    /\ pc = "running"
    /\ listening = {"midi", "qwerty"}
    /\ queue = <<>>
    /\ budget = n
    /\ sent = [s \in Sources |-> 0]
    /\ theory = InitTheory
    /\ current_tuning = "EqualTemperament"
    /\ synth_name = InitTheory.synthdef
    /\ events = StartedEvents
    /\ notes = InitApp.notes
    /\ engine = InitApp.engine
    /\ notifications = InitApp.notifications
    /\ app_notes = InitApp.app_notes
    /\ current_octave = InitApp.current_octave
    /\ octave = InitApp.octave
    /\ presses_to_note_numbers = InitApp.presses_to_note_numbers
    /\ applied = InitApp.applied
    /\ probe = NoProbe
    /\ exception_handler = NoCalls
    /\ synth_list = ComposedList

(***************************************************************************)
(* IgnoreSpec: the running app with both listeners delivering recognized   *)
(* and unrecognized input.                                                 *)
(***************************************************************************)
InitIgnore == InitRunning(MaxIgnoreEvents)

NextIgnore ==
    \/ MidiHandler_handle(IgnoreFuncs, Velocities)
    \/ QwertyHandler_on_press(IgnoreKeyChars)
    \/ QwertyHandler_on_release(IgnoreKeyChars)
    \/ process_message

IgnoreSpec == InitIgnore /\ [][NextIgnore]_vars

(***************************************************************************)
(* OctaveSpec: the running app after a run of octave-down or octave-up     *)
(* presses was applied; the keyboard listener then delivers more keys.     *)
(***************************************************************************)
\* n presses of one key.
KeyPressMessages(key_char, n) ==
    [i \in 1 .. n |->
        [type |-> "HandleKeyPress", src |-> "qwerty", n |-> i,
         key_char |-> key_char]]

InitOctave ==
    /\ pc = "running"
    /\ listening = {"midi", "qwerty"}
    /\ queue = <<>>
    /\ budget = MaxOctaveEvents
    /\ theory = InitTheory
    /\ current_tuning = "EqualTemperament"
    /\ synth_name = InitTheory.synthdef
    /\ events = StartedEvents
    /\ \E key_char \in {"z", "x"}, n \in 0 .. MaxOctavePreset :
          LET st == Replay(InitApp, InitTheory, KeyPressMessages(key_char, n))
          IN  /\ sent = [s \in Sources |-> IF s = "qwerty" THEN n ELSE 0]
              /\ notes = st.notes
              /\ engine = st.engine
              /\ notifications = st.notifications
              /\ app_notes = st.app_notes
              /\ current_octave = st.current_octave
              /\ octave = st.octave
              /\ presses_to_note_numbers = st.presses_to_note_numbers
              /\ applied = st.applied
    /\ probe = NoProbe
    /\ exception_handler = NoCalls
    /\ synth_list = ComposedList

NextOctave ==
    \/ QwertyHandler_on_press(OctaveKeyChars)
    \/ QwertyHandler_on_release(OctaveKeyChars)
    \/ process_message

OctaveSpec == InitOctave /\ [][NextOctave]_vars

(***************************************************************************)
(* KeySpec: the running app with the keyboard listener delivering presses  *)
(* and releases of two note keys and the two octave keys.                  *)
(***************************************************************************)
InitKey ==
    /\ pc = "running"
    /\ listening = {"midi", "qwerty"}
    /\ queue = <<>>
    /\ budget = MaxKeyEvents
    /\ sent = [s \in Sources |-> 0]
    /\ theory = InitTheory
    /\ current_tuning = "EqualTemperament"
    /\ synth_name = InitTheory.synthdef
    /\ events = StartedEvents
    /\ notes = InitApp.notes
    /\ engine = InitApp.engine
    /\ notifications = InitApp.notifications
    /\ app_notes = InitApp.app_notes
    /\ current_octave = InitApp.current_octave
    /\ octave = InitApp.octave
    /\ presses_to_note_numbers = InitApp.presses_to_note_numbers
    /\ applied = InitApp.applied
    /\ probe = NoProbe
    /\ exception_handler = NoCalls
    /\ synth_list = ComposedList

NextKey ==
    \/ QwertyHandler_on_press(ProbeKeyChars)
    \/ QwertyHandler_on_release(ProbeKeyChars)
    \/ process_message

KeySpec == InitKey /\ [][NextKey]_vars

(***************************************************************************)
(* SelectSpec: the running app with the MIDI listener delivering Note-On   *)
(* messages while tunings and synths are selected in the TUI.              *)
(***************************************************************************)
InitSelect ==
    /\ pc = "running"
    /\ listening = {"midi", "qwerty"}
    /\ queue = <<>>
    /\ budget = MaxSelectEvents
    /\ sent = [s \in Sources |-> 0]
    /\ theory = InitTheory
    /\ current_tuning = "EqualTemperament"
    /\ synth_name = InitTheory.synthdef
    /\ events = StartedEvents
    /\ notes = InitApp.notes
    /\ engine = InitApp.engine
    /\ notifications = InitApp.notifications
    /\ app_notes = InitApp.app_notes
    /\ current_octave = InitApp.current_octave
    /\ octave = InitApp.octave
    /\ presses_to_note_numbers = InitApp.presses_to_note_numbers
    /\ applied = InitApp.applied
    /\ probe = NoProbe
    /\ exception_handler = NoCalls
    /\ synth_list = ComposedList

NextSelect ==
    \/ MidiHandler_handle(SelectFuncs, SelectVelocities)
    \/ process_message
    \/ on_key
    \/ activate_synth

SelectSpec == InitSelect /\ [][NextSelect]_vars

(***************************************************************************)
(* play.py: its own QwertyHandler, whose callbacks act on the              *)
(* PolyphonyManager themselves, on the listener's thread.                  *)
(***************************************************************************)
\* pynput KeyCode.__eq__ is False for anything that is not a KeyCode, and
\* the keys of presses_to_note_numbers are the characters (strings).
KeyCode_in(key_char, presses) == FALSE

\* play.py on_press, lines 225-248: the synthdef and tuning a key selects.
\* synths.default does not exist in synths.py: 'c' selects nothing.
play_on_press_theory(th, char) ==
    CASE char = "v" -> [th EXCEPT !.synthdef = "simple_sine"]
      [] char = "b" -> [th EXCEPT !.synthdef = "mockingboard"]
      [] char \in {"n", "m", ",", ".", "/"} ->
            [th EXCEPT !.tuning = on_key_tuning(char).tuning]
      [] OTHER -> th

\* play.py on_press, lines 217-224 and 250-260.
play_on_press(st, th, message) ==
    IF message.key_char = "z"
    THEN LET o == Max(st.octave - 1, MinOctave)
         IN  Applied([st EXCEPT !.octave = o, !.current_octave = o],
                     message, NoCall)
    ELSE IF message.key_char = "x"
    THEN LET o == Min(st.octave + 1, MaxOctave)
         IN  Applied([st EXCEPT !.octave = o, !.current_octave = o],
                     message, NoCall)
    ELSE IF KeyCode_in(message.key_char, st.presses_to_note_numbers)
    THEN Applied(st, message, NoCall)
    ELSE LET pitch == qwerty_key_to_pitch_number(message.key_char)
             note_number == pitch + st.octave * SemitonesPerOctave
             velocity == QwertyVelocity
             stashed == [st EXCEPT !.presses_to_note_numbers =
                            DictSet(@, message.key_char, note_number)]
         IN  IF pitch = -1
             THEN Applied(st, message, NoCall)
             ELSE Applied(WithPM(stashed,
                                 note_on(PM(stashed), th, note_number,
                                         velocity)),
                          message, NoteOnCall(note_number, velocity))

\* play.py on_release, lines 273-277.
play_on_release(st, message) ==
    IF message.key_char \notin DOMAIN st.presses_to_note_numbers
    THEN Applied(st, message, NoCall)
    ELSE LET note_number == st.presses_to_note_numbers[message.key_char]
             popped == [st EXCEPT !.presses_to_note_numbers =
                            DictDel(@, message.key_char)]
         IN  Applied(WithPM(popped, note_off(PM(popped), note_number)),
                     message, NoteOffCall(note_number))

play_QwertyHandler_on_press(chars) ==
    /\ "qwerty" \in listening
    /\ budget > 0
    /\ budget' = budget - 1
    /\ \E char \in chars \cup {NoChar} :
          IF char = NoChar
          THEN UNCHANGED <<sent, theory, current_tuning, synth_name>>
               /\ UNCHANGED appVars
          ELSE LET message == [type |-> "HandleKeyPress", src |-> "qwerty",
                               n |-> sent["qwerty"] + 1, key_char |-> char]
                   th == play_on_press_theory(theory, char)
               IN  /\ sent' = [sent EXCEPT !["qwerty"] = @ + 1]
                   /\ theory' = th
                   /\ current_tuning' =
                         IF char \in {"n", "m", ",", ".", "/"}
                         THEN on_key_tuning(char).name ELSE current_tuning
                   /\ synth_name' =
                         IF char \in {"v", "b"} THEN th.synthdef
                         ELSE synth_name
                   /\ Becomes(play_on_press(Cur, th, message))
    /\ UNCHANGED <<pc, listening, queue, events>>
    /\ UNCHANGED probe
    /\ UNCHANGED <<exception_handler, synth_list>>

play_QwertyHandler_on_release(chars) ==
    /\ "qwerty" \in listening
    /\ budget > 0
    /\ budget' = budget - 1
    /\ \E char \in chars \cup {NoChar} :
          IF char = NoChar
          THEN UNCHANGED sent /\ UNCHANGED appVars
          ELSE LET message == [type |-> "HandleKeyRelease", src |-> "qwerty",
                               n |-> sent["qwerty"] + 1, key_char |-> char]
               IN  /\ sent' = [sent EXCEPT !["qwerty"] = @ + 1]
                   /\ Becomes(play_on_release(Cur, message))
    /\ UNCHANGED <<pc, listening, queue, theory, current_tuning, synth_name,
                   events>>
    /\ UNCHANGED probe
    /\ UNCHANGED <<exception_handler, synth_list>>

NextPlay ==
    \/ play_QwertyHandler_on_press(ProbeKeyChars)
    \/ play_QwertyHandler_on_release(ProbeKeyChars)

PlaySpec == InitKey /\ [][NextPlay]_vars

(***************************************************************************)
(* ConfigSpec: configuration keys.  The keyboard is served by input.py's   *)
(* QwertyHandler and the app's handlers, with on_key and the synth list of *)
(* the TUI, or by play.py's QwertyHandler.                                 *)
(***************************************************************************)
InitConfig == InitRunning(MaxConfigEvents)

NextConfig ==
    \/ QwertyHandler_on_press(ConfigKeyChars)
    \/ process_message
    \/ on_key
    \/ activate_synth
    \/ play_QwertyHandler_on_press(ConfigKeyChars)

ConfigSpec == InitConfig /\ [][NextConfig]_vars

(***************************************************************************)
(* What the applied commands did, read off the log.                        *)
(***************************************************************************)
\* Add-voice requests and notifications made while command k was applied.
Adds(k) == applied[k].nsynths - (IF k = 1 THEN 0 ELSE applied[k - 1].nsynths)
Notifs(k) == applied[k].nnotif - (IF k = 1 THEN 0 ELSE applied[k - 1].nnotif)

IsNoteOn(k, p) ==
    applied[k].call.op = "note_on" /\ applied[k].call.note_number = p
IsNoteOff(k, p) ==
    applied[k].call.op = "note_off" /\ applied[k].call.note_number = p

LiveSynths == {h \in DOMAIN engine : engine[h].frees = 0}
AfterFreeAll == {"freed", "settled", "stopped"}
Last(q) == q[Len(q)]

(***************************************************************************)
(* C1: a pitch is a key of the voice registry if and only if the engine    *)
(* holds a voice for it that was added and not yet freed.                  *)
(***************************************************************************)
C1_RegistryIffLiveVoice ==
    /\ \A p \in DOMAIN notes : notes[p] \in LiveSynths
    /\ \A h \in LiveSynths : \E p \in DOMAIN notes : notes[p] = h
    /\ \A p, q \in DOMAIN notes : notes[p] = notes[q] => p = q

(***************************************************************************)
(* C2: noteOn(p, v1) followed by noteOn(p, v2) with no noteOff(p) in       *)
(* between leaves exactly one voice registered for p, makes exactly one    *)
(* add-voice request and emits exactly one note-started notification: the  *)
(* second call adds and emits nothing, and the first, when it is the first *)
(* call for p at all, adds one voice and emits one notification.           *)
(***************************************************************************)
NoNoteOffBetween(i, j, p) == \A k \in (i + 1) .. (j - 1) : ~IsNoteOff(k, p)

RepeatedNoteOn(i, j) ==
    /\ i < j
    /\ applied[i].call.op = "note_on"
    /\ IsNoteOn(j, applied[i].call.note_number)
    /\ NoNoteOffBetween(i, j, applied[i].call.note_number)

AppliesOne == Len(applied') = Len(applied) + 1

C3_NoteOffOfAbsentPitch ==
    [][(/\ AppliesOne
        /\ Last(applied').call.op = "note_off"
        /\ Last(applied').call.note_number \notin DOMAIN notes)
       => /\ notes' = notes
          /\ engine' = engine
          /\ notifications' = notifications
          /\ app_notes' = app_notes]_vars

\* The first command ever applied was a note-off: nothing was registered.
C3_Witness ==
    /\ applied # <<>>
    /\ applied[1].call.op = "note_off"
    /\ applied[1].msg.type = "HandleMidiEvent"
    /\ engine = <<>>
    /\ notifications = <<>>

(***************************************************************************)
(* C4: the commands of one source are applied in the order the source      *)
(* generated them, whatever the other source does in between, and the      *)
(* notifications reach the observer in the order of the commands that      *)
(* caused them.                                                            *)
(***************************************************************************)
EarlierOfSource(k) ==
    {i \in 1 .. (k - 1) : applied[i].msg.src = applied[k].msg.src}

C4_OrderPreserved ==
    /\ \A k \in DOMAIN applied :
          /\ applied[k].msg.n = Cardinality(EarlierOfSource(k)) + 1
          /\ Notifs(k) \in {0, 1}
          /\ Notifs(k) = 1 =>
                LET note == notifications[applied[k].nnotif]
                IN  /\ note.note_number = applied[k].call.note_number
                    /\ note.kind = "add_note" <=> applied[k].call.op = "note_on"
                    /\ note.kind = "remove_note" <=> applied[k].call.op = "note_off"
    /\ Len(notifications) = IF applied = <<>> THEN 0 ELSE Last(applied).nnotif
    /\ \A i \in DOMAIN queue :
          queue[i].n = Cardinality({k \in DOMAIN applied :
                                       applied[k].msg.src = queue[i].src})
                       + Cardinality({j \in 1 .. i : queue[j].src = queue[i].src})

\* noteOn(60), noteOn(62), noteOff(60) from the MIDI source were applied and
\* notified as started(60), started(62), stopped(60).
C4_Witness ==
    /\ Len(applied) = 3
    /\ \A k \in 1 .. 3 : applied[k].msg.src = "midi"
    /\ applied[1].call = NoteOnCall(60, 100)
    /\ applied[2].call = NoteOnCall(62, 100)
    /\ applied[3].call = NoteOffCall(60)
    /\ Len(notifications) = 3
    /\ notifications[1].kind = "add_note" /\ notifications[1].note_number = 60
    /\ notifications[2].kind = "add_note" /\ notifications[2].note_number = 62
    /\ notifications[3].kind = "remove_note" /\ notifications[3].note_number = 60

(***************************************************************************)
(* C5: every command a listener hands to the dispatcher is applied by the  *)
(* owning context and none is dropped; stated of a finished run: when the  *)
(* program has stopped, every command handed over has been applied.        *)
(***************************************************************************)
C5_EveryCommandApplied ==
    pc = "stopped" => Len(applied) = sent["midi"] + sent["qwerty"]

(***************************************************************************)
(* C6: after freeAll() has returned the voice registry contains no pitch.  *)
(***************************************************************************)
C6_RegistryEmptyAfterFreeAll ==
    pc \in AfterFreeAll => DOMAIN notes = {}

(***************************************************************************)
(* C7: once freeAll() has run during shutdown no add-voice request is made *)
(* again, whatever is still queued and whatever the listeners still send.  *)
(***************************************************************************)
C7_NoAddAfterFreeAll ==
    [][(pc \in AfterFreeAll) => (Len(engine') = Len(engine))]_vars

\* After freeAll a listener is still running and a NoteOn for a pitch that
\* is not registered waits in the queue.
C7_Witness ==
    /\ pc \in AfterFreeAll
    /\ listening # {}
    /\ \E i \in DOMAIN queue :
          /\ queue[i].type = "HandleMidiEvent"
          /\ NOTE_ON <= queue[i].func
          /\ queue[i].velocity > 0
          /\ queue[i].note_number \notin DOMAIN notes

(***************************************************************************)
(* C8: a listener callback only enqueues one command; the registry, the    *)
(* key-held and octave state and the observer change only while the        *)
(* owning context applies a message.                                       *)
(***************************************************************************)
ListenerStep == budget' = budget - 1

OwnedState ==
    <<notes, octave, presses_to_note_numbers, app_notes, current_octave,
      notifications>>

C8_ListenersOnlyEnqueue ==
    [][/\ ListenerStep =>
            /\ UNCHANGED OwnedState
            /\ UNCHANGED <<engine, theory, current_tuning, applied>>
            /\ \/ queue' = queue
               \/ /\ Len(queue') = Len(queue) + 1
                  /\ SubSeq(queue', 1, Len(queue)) = queue
       /\ (OwnedState' # OwnedState) =>
            /\ ~ListenerStep
            /\ pc = "running"
            /\ queue # <<>>
            /\ queue' = Tail(queue)
            /\ AppliesOne]_vars

\* An octave-down press has been handed over and waits in the queue while
\* the octave is still the initial one.
C8_Witness ==
    /\ \E i \in DOMAIN queue :
          queue[i].type = "HandleKeyPress" /\ queue[i].key_char = "z"
    /\ applied = <<>>
    /\ octave = DefaultOctave
    /\ current_octave = DefaultOctave

(***************************************************************************)
(* C9: a MIDI message with a Note-On status on any of the 16 channels      *)
(* (0x90..0x9F) is routed to noteOff for its note and starts no voice when *)
(* its velocity is 0, and to noteOn with its note and velocity otherwise.  *)
(***************************************************************************)
NoteOnStatus == NOTE_ON .. (NOTE_ON + 15)
NoteOffStatus == NOTE_OFF .. (NOTE_OFF + 15)

IsMidi(k) == applied[k].msg.type = "HandleMidiEvent"

\* The pitch was registered when command k was applied: an earlier command
\* started it and none stopped it since.
RegisteredBefore(k, p) ==
    \E i \in 1 .. (k - 1) :
        /\ IsNoteOn(i, p)
        /\ \A j \in (i + 1) .. (k - 1) : ~IsNoteOff(j, p)

C9_NoteOnStatusRouting ==
    \A k \in DOMAIN applied :
        (IsMidi(k) /\ applied[k].msg.func \in NoteOnStatus) =>
            LET m == applied[k].msg
            IN  IF m.velocity = 0
                THEN /\ applied[k].call = NoteOffCall(m.note_number)
                     /\ Adds(k) = 0
                     /\ Notifs(k) = (IF RegisteredBefore(k, m.note_number)
                                     THEN 1 ELSE 0)
                     /\ k = Len(applied) => m.note_number \notin DOMAIN notes
                ELSE /\ applied[k].call = NoteOnCall(m.note_number, m.velocity)
                     /\ Adds(k) = (IF RegisteredBefore(k, m.note_number)
                                   THEN 0 ELSE 1)
                     /\ Adds(k) = 1 =>
                           /\ engine[applied[k].nsynths].amplitude =
                                 midi_velocity_to_amplitude(m.velocity)
                           /\ notifications[applied[k].nnotif].velocity =
                                 m.velocity
                     /\ k = Len(applied) => m.note_number \in DOMAIN notes

\* Note 60 was sounding and a Note-On on channel 15 with velocity 0 for it
\* was applied: the note is stopped.
C9_Witness ==
    /\ Len(applied) = 2
    /\ applied[1].call = NoteOnCall(60, 100)
    /\ applied[2].msg.func = NOTE_ON + 15
    /\ applied[2].msg.velocity = 0
    /\ applied[2].msg.note_number = 60
    /\ DOMAIN notes = {}
    /\ engine[1].frees = 1

(***************************************************************************)
(* C10: a MIDI message with a Note-Off status on any of the 16 channels    *)
(* (0x80..0x8F) is routed to noteOff for its note number, whatever its     *)
(* velocity byte and whatever its channel.                                 *)
(***************************************************************************)
C10_NoteOffStatusRouting ==
    \A k \in DOMAIN applied :
        (IsMidi(k) /\ applied[k].msg.func \in NoteOffStatus) =>
            LET m == applied[k].msg
            IN  /\ applied[k].call = NoteOffCall(m.note_number)
                /\ Adds(k) = 0
                /\ Notifs(k) = (IF RegisteredBefore(k, m.note_number)
                                THEN 1 ELSE 0)
                /\ Notifs(k) = 1 =>
                      notifications[applied[k].nnotif] =
                          [kind |-> "remove_note", note_number |-> m.note_number]
                /\ k = Len(applied) =>
                      /\ m.note_number \notin DOMAIN notes
                      /\ m.note_number \notin DOMAIN app_notes

\* Note 60 was sounding and a Note-Off on channel 15 with velocity 127 for
\* it was applied: the note is stopped.
C10_Witness ==
    /\ Len(applied) = 2
    /\ applied[1].call = NoteOnCall(60, 100)
    /\ applied[2].msg.func = NOTE_OFF + 15
    /\ applied[2].msg.velocity = 127
    /\ applied[2].msg.note_number = 60
    /\ DOMAIN notes = {}
    /\ engine[1].frees = 1

(***************************************************************************)
(* The keyboard commands, read off the log.                                *)
(***************************************************************************)
\* The note keys the keyboard specifications deliver, and their positions
\* in the scale.
ProbeNoteKeys == {"a", "d"}
ScalePosition(k) == CASE k = "a" -> 0 [] k = "d" -> 4

IsPress(i, k) ==
    applied[i].msg.type = "HandleKeyPress" /\ applied[i].msg.key_char = k
IsRelease(i, k) ==
    applied[i].msg.type = "HandleKeyRelease" /\ applied[i].msg.key_char = k

\* The octave after the first n applied commands.
RECURSIVE OctaveAfter(_)
OctaveAfter(n) ==
    IF n = 0 THEN 5
    ELSE IF IsPress(n, "z") THEN Max(OctaveAfter(n - 1) - 1, 0)
    ELSE IF IsPress(n, "x") THEN Min(OctaveAfter(n - 1) + 1, 10)
    ELSE OctaveAfter(n - 1)

\* Command i is the press that took key k from released to held, and
\* command j is the next release of k.
PressThenRelease(i, j, k) ==
    /\ i < j
    /\ IsPress(i, k)
    /\ IsRelease(j, k)
    /\ \A l \in (i + 1) .. (j - 1) : ~IsRelease(l, k)
    /\ \A l \in 1 .. (i - 1) :
          IsPress(l, k) => \E r \in (l + 1) .. (i - 1) : IsRelease(r, k)

(***************************************************************************)
(* C11: when note key k is pressed at octave o and released later, the     *)
(* release emits NoteOff for exactly scalePosition(k) + 12*o, the pitch    *)
(* the press started, and removes k from the key-held state, whatever      *)
(* octave changes and repeated presses of k came in between.               *)
(***************************************************************************)
C11_ReleaseStopsPressedPitch ==
    \A i, j \in DOMAIN applied : \A k \in ProbeNoteKeys :
        PressThenRelease(i, j, k) =>
            /\ applied[j].call =
                  NoteOffCall(ScalePosition(k) + 12 * OctaveAfter(i - 1))
            /\ j = Len(applied) => k \notin DOMAIN presses_to_note_numbers

(***************************************************************************)
(* C12: a press of a note key that is already held is ignored: it emits    *)
(* no NoteOn and leaves the key-held state, with the pitch cached for the  *)
(* key, and the voices unchanged, also when the octave changed since the   *)
(* first press.                                                            *)
(***************************************************************************)
C12_RepeatedPressIgnored ==
    [][\A k \in ProbeNoteKeys :
          (/\ AppliesOne
           /\ Last(applied').msg.type = "HandleKeyPress"
           /\ Last(applied').msg.key_char = k
           /\ k \in DOMAIN presses_to_note_numbers)
          => /\ Last(applied').call = NoCall
             /\ presses_to_note_numbers' = presses_to_note_numbers
             /\ UNCHANGED <<notes, engine, notifications, octave>>]_vars

(***************************************************************************)
(* C13: a press of a note key that is not held, with scale position s at   *)
(* octave o, records key -> s + 12*o in the key-held state and emits       *)
(* NoteOn(s + 12*o, 64).                                                   *)
(***************************************************************************)
C13_PressStartsNote ==
    [][\A k \in ProbeNoteKeys :
          (/\ AppliesOne
           /\ Last(applied').msg.type = "HandleKeyPress"
           /\ Last(applied').msg.key_char = k
           /\ k \notin DOMAIN presses_to_note_numbers)
          => LET p == ScalePosition(k) + 12 * octave
             IN  /\ presses_to_note_numbers' =
                       DictSet(presses_to_note_numbers, k, p)
                 /\ Last(applied').call = NoteOnCall(p, 64)
                 /\ octave' = octave
                 /\ p \notin DOMAIN notes =>
                       /\ Len(engine') = Len(engine) + 1
                       /\ Last(engine').frequency =
                             midi_note_number_to_frequency(theory.tuning, p)
                       /\ notes' = DictSet(notes, p, Len(engine'))]_vars

\* Scale position 4 ("d") was pressed at octave 5: NoteOn(64, 64), and the
\* voice sounds at 440 * 2^(-5/12) Hz.
C13_Witness ==
    /\ Len(applied) = 1
    /\ applied[1].msg.key_char = "d"
    /\ applied[1].call = NoteOnCall(64, 64)
    /\ octave = 5
    /\ presses_to_note_numbers = DictSet(EmptyDict, "d", 64)
    /\ DOMAIN notes = {64}
    /\ engine[notes[64]].frequency = Freq(-5, 1, 1)

(***************************************************************************)
(* C14: selecting an instrument or a tuning changes only the active        *)
(* selection: the registry, every existing voice and the notifications     *)
(* stay as they are and nothing is added to or freed in the engine; a      *)
(* voice is added only by a noteOn, with the instrument and tuning         *)
(* selected when that noteOn is applied.                                   *)
(***************************************************************************)
C14_SelectionTouchesNoVoice ==
    [][/\ (theory' # theory) =>
             UNCHANGED <<notes, engine, notifications, app_notes, applied>>
       /\ (engine' # engine) =>
             /\ theory' = theory
             /\ AppliesOne
             /\ Last(applied').call.op \in {"note_on", "note_off"}
             /\ Last(applied').call.op = "note_on" =>
                   /\ Len(engine') = Len(engine) + 1
                   /\ SubSeq(engine', 1, Len(engine)) = engine
                   /\ Last(engine').synthdef = theory.synthdef
                   /\ Last(engine').frequency =
                         midi_note_number_to_frequency(
                             theory.tuning, Last(applied').call.note_number)]_vars

\* Two voices sound, the first started with simple_sine in equal
\* temperament, the second after mockingboard and just intonation in C were
\* selected.
C14_Witness ==
    /\ Len(engine) = 2
    /\ DOMAIN notes = {60, 62}
    /\ notes[60] = 1
    /\ notes[62] = 2
    /\ engine[1] = [synthdef |-> "simple_sine", frequency |-> Freq(-9, 1, 1),
                    amplitude |-> midi_velocity_to_amplitude(100),
                    frees |-> 0]
    /\ engine[2].synthdef = "mockingboard"
    /\ engine[2].frequency = Freq(-9, 9, 8)
    /\ engine[2].frees = 0
    /\ theory = [tuning |-> JustIntonation("C"), synthdef |-> "mockingboard"]

(***************************************************************************)
(* C15: a registry entry is never replaced or changed in place: as long as *)
(* pitch p stays registered its voice keeps its engine handle, frequency,  *)
(* velocity and instrument, whatever noteOn or selection is applied, and   *)
(* the entry leaves the registry only by a noteOff(p).                     *)
(***************************************************************************)
C15_EntryFixedUntilNoteOff ==
    [][\A p \in DOMAIN notes :
          IF p \in DOMAIN notes'
          THEN /\ notes'[p] = notes[p]
               /\ engine'[notes[p]].frequency = engine[notes[p]].frequency
               /\ engine'[notes[p]].amplitude = engine[notes[p]].amplitude
               /\ engine'[notes[p]].synthdef = engine[notes[p]].synthdef
               /\ engine'[notes[p]].frees = engine[notes[p]].frees
          ELSE /\ AppliesOne
               /\ Last(applied').call = NoteOffCall(p)]_vars

\* Note 62 was started with velocity 100, another tuning and synth were
\* selected, and a second Note-On for 62 with velocity 64 was applied: the
\* one voice is the one the first Note-On made.
C15_Witness ==
    /\ Len(applied) = 2
    /\ applied[1].call = NoteOnCall(62, 100)
    /\ applied[2].call = NoteOnCall(62, 64)
    /\ theory = [tuning |-> JustIntonation("C"), synthdef |-> "mockingboard"]
    /\ DOMAIN notes = {62}
    /\ notes[62] = 1
    /\ engine = <<[synthdef |-> "simple_sine", frequency |-> Freq(-7, 1, 1),
                   amplitude |-> midi_velocity_to_amplitude(100),
                   frees |-> 0]>>

(***************************************************************************)
(* The order of what run() did, read off events.                           *)
(***************************************************************************)
Happened(e) == \E i \in DOMAIN events : events[i] = e
At(e) == CHOOSE i \in DOMAIN events : events[i] = e
\* e happened, f happened, and e came first.
Precedes(e, f) == Happened(e) /\ Happened(f) /\ At(e) < At(f)

Booted == Event("booted", "server")
SynthdefsLoaded == Event("synthdefs_loaded", "server")
FreeAll == Event("free_all", "polyphony")
Sleep == Event("sleep", "main")
Quit == Event("quit", "server")
Enter(h) == Event("enter", h)
Exit(h) == Event("exit", h)

(***************************************************************************)
(* C16: during shutdown every input listener is stopped, and hands over    *)
(* no further command, before freeAll() tears down the registry.           *)
(***************************************************************************)
C16_ListenersStoppedBeforeFreeAll ==
    Happened(FreeAll) => \A h \in Sources : Precedes(Exit(h), FreeAll)

(***************************************************************************)
(* C17: in every shutdown freeAll() is called and the settle interval has  *)
(* elapsed before the engine is told to quit.                              *)
(***************************************************************************)
C17_FreeAllAndSettleBeforeQuit ==
    Happened(Quit) => Precedes(FreeAll, Sleep) /\ Precedes(Sleep, Quit)

\* A run that started a voice and was shut down: the voice was freed, the
\* settle interval passed and the server quit.
C17_Witness ==
    /\ pc = "stopped"
    /\ Last(events) = Quit
    /\ Len(engine) = 1
    /\ engine[1].frees = 1

(***************************************************************************)
(* C18: in every shutdown the listeners' resources are released only after *)
(* the engine has confirmed that it quit.                                  *)
(***************************************************************************)
C18_ListenersReleasedAfterQuit ==
    \A h \in Sources : Happened(Exit(h)) => Precedes(Quit, Exit(h))

(***************************************************************************)
(* C19: no input listener is started before the engine has confirmed boot  *)
(* and the instrument definitions are confirmed loaded; listeners start    *)
(* only once the lifecycle is in Ready.                                    *)
(***************************************************************************)
C19_ListenersStartWhenReady ==
    /\ \A h \in Sources :
          Happened(Enter(h)) =>
              /\ Precedes(Booted, Enter(h))
              /\ Precedes(SynthdefsLoaded, Enter(h))
    /\ listening # {} => Lifecycle \notin {"Idle", "EngineBooting"}

\* The MIDI listener was just entered, after boot and synthdef load, and
\* the keyboard listener not yet.
C19_Witness ==
    /\ pc = "booted"
    /\ listening = {"midi"}
    /\ Last(events) = Enter("midi")
    /\ events[Len(events) - 1] = SynthdefsLoaded

(***************************************************************************)
(* C20: the lifecycle visits its states only in the order Idle,            *)
(* EngineBooting, Ready, ShuttingDown, Stopped: every step stays in the    *)
(* state or moves to the next one, and nothing leaves Stopped.             *)
(***************************************************************************)
LifecycleOrder ==
    <<"Idle", "EngineBooting", "Ready", "ShuttingDown", "Stopped">>
Rank(state) == CHOOSE i \in DOMAIN LifecycleOrder : LifecycleOrder[i] = state

C20_LifecycleOrder ==
    [][/\ \/ Rank(Lifecycle') = Rank(Lifecycle)
          \/ Rank(Lifecycle') = Rank(Lifecycle) + 1
       /\ Lifecycle = "Stopped" => Lifecycle' = "Stopped"]_vars

\* A whole run: idle to stopped, through boot, both listeners, free_all,
\* the settle interval and both listener exits.
C20_Witness ==
    /\ Lifecycle = "Stopped"
    /\ events = StartedEvents \o
                <<Event("quitting", "server"), FreeAll, Sleep,
                  Exit("midi"), Exit("qwerty"), Quit>>

(***************************************************************************)
(* C21: an unrecognized input, a key character that is neither a note key  *)
(* nor a configuration key or a MIDI status byte outside the Note-Off and  *)
(* Note-On ranges, is ignored: the registry, the voices, the key-held      *)
(* state, the octave, the selections and the app's note view stay as they  *)
(* are and nothing is called.                                              *)
(***************************************************************************)
Unrecognized(message) ==
    \/ /\ message.type = "HandleMidiEvent"
       /\ message.func \notin 128 .. 159
    \/ /\ message.type \in {"HandleKeyPress", "HandleKeyRelease"}
       /\ message.key_char = "q"

C21_UnrecognizedInputIgnored ==
    [][(AppliesOne /\ Unrecognized(Last(applied').msg)) =>
          /\ Last(applied').call = NoCall
          /\ UNCHANGED <<notes, engine, notifications, app_notes,
                         presses_to_note_numbers, octave, current_octave,
                         theory, current_tuning, synth_name>>]_vars

\* With "a" held and its voice sounding, a press of "q" was applied.
C21_Witness ==
    /\ Len(applied) = 2
    /\ applied[1].call = NoteOnCall(60, 64)
    /\ applied[2].msg.type = "HandleKeyPress"
    /\ applied[2].msg.key_char = "q"
    /\ DOMAIN notes = {60}
    /\ DOMAIN presses_to_note_numbers = {"a"}
    /\ Len(engine) = 1

(***************************************************************************)
(* C22: a listener's hand-off never waits for the command to be applied:   *)
(* whatever is still queued and unapplied, a running listener that has an  *)
(* event can hand it over.                                                 *)
(***************************************************************************)
C22_HandOffNeverWaits ==
    /\ ("midi" \in listening /\ budget > 0) =>
          ENABLED MidiHandler_handle(MidiFuncs, Velocities)
    /\ ("qwerty" \in listening /\ budget > 0) =>
          /\ ENABLED QwertyHandler_on_press(KeyChars)
          /\ ENABLED QwertyHandler_on_release(KeyChars)

\* The MIDI listener handed over two commands, none of them is applied yet,
\* and it can hand over another one.
C22_Witness ==
    /\ Len(queue) = 2
    /\ sent["midi"] = 2
    /\ applied = <<>>
    /\ "midi" \in listening
    /\ budget > 0

(***************************************************************************)
(* C23: every pitch the keyboard hands to noteOn lies in 0..127, for every *)
(* note key and every octave from 0 to 10.                                 *)
(***************************************************************************)
C23_KeyboardPitchInMidiRange ==
    \A k \in DOMAIN applied :
        (applied[k].msg.type = "HandleKeyPress"
            /\ applied[k].call.op = "note_on")
        => applied[k].call.note_number \in 0 .. 127

(***************************************************************************)
(* C24: the keyboard's octave stays in 0..10 after any sequence of         *)
(* octave-down and octave-up presses starting from 5: octave-down at 0 and *)
(* octave-up at 10 leave it as it is, any other such press changes it by   *)
(* exactly one, and nothing else changes it.                               *)
(***************************************************************************)
AppliesPress(k) ==
    /\ AppliesOne
    /\ Last(applied').msg.type = "HandleKeyPress"
    /\ Last(applied').msg.key_char = k

C24_OctaveClamped ==
    [][/\ octave \in 0 .. 10
       /\ octave' \in 0 .. 10
       /\ octave = OctaveAfter(Len(applied))
       /\ AppliesPress("z") =>
             octave' = (IF octave = 0 THEN 0 ELSE octave - 1)
       /\ AppliesPress("x") =>
             octave' = (IF octave = 10 THEN 10 ELSE octave + 1)
       /\ ~(AppliesPress("z") \/ AppliesPress("x")) => octave' = octave]_vars

\* Octave-up was pressed seven times from 5: the octave is 10, and the last
\* two presses left it there.
C24_Witness ==
    /\ Len(applied) = 7
    /\ \A k \in DOMAIN applied : IsPress(k, "x")
    /\ octave = 10
    /\ current_octave = 10

(***************************************************************************)
(* C25: a press of a configuration key (octave down or up, synth, tuning)  *)
(* performs only its state change: it emits no NoteOn, adds no entry to    *)
(* the key-held state and leaves the voice registry and the voices as they *)
(* are; a change of octave leaves the selections alone.                    *)
(***************************************************************************)
ConfigKeys == {"z", "x", "c", "v", "b", "n", "m", ",", ".", "/"}

C25_ConfigKeyOnlyConfigures ==
    [][/\ (\E k \in ConfigKeys : AppliesPress(k)) =>
             /\ Last(applied').call = NoCall
             /\ UNCHANGED <<notes, engine, notifications, app_notes,
                            presses_to_note_numbers>>
       /\ (theory' # theory \/ octave' # octave) =>
             UNCHANGED <<notes, engine, notifications, app_notes,
                         presses_to_note_numbers>>
       /\ (octave' # octave) => (theory' = theory)]_vars

\* With "a" held and its voice sounding, octave-up and "m" were pressed and
\* another tuning and synth were selected: the one voice and the one held
\* key are as the press of "a" left them.
C25_Witness ==
    /\ Len(applied) = 3
    /\ applied[1].call = NoteOnCall(60, 64)
    /\ IsPress(2, "x")
    /\ IsPress(3, "m")
    /\ octave = 6
    /\ theory = [tuning |-> JustIntonation("C"), synthdef |-> "mockingboard"]
    /\ DOMAIN notes = {60}
    /\ Len(engine) = 1
    /\ engine[1].frees = 0
    /\ presses_to_note_numbers = DictSet(EmptyDict, "a", 60)

(***************************************************************************)
(* TuningSpec: a tuning object of any class and key is asked, outside the  *)
(* app, for the frequencies of a pitch and of the pitch an octave above.   *)
(* The arithmetic is Python's, in doubles: a double is kept as the real    *)
(* number it approximates and its distance, in units in the last place,    *)
(* from that number correctly rounded.  Operations that are exact in       *)
(* doubles have distance 0; the others round as the platform's pow and     *)
(* division round them, any distance up to MaxUlp.                         *)
(***************************************************************************)
MaxUlp == 1
MaxPitch == 127

Ulps == -MaxUlp .. MaxUlp
Pitches == 0 .. MaxPitch
KeyStrings == {"C", "D", "E", "F", "G", "A", "B", "c", "H", ""}
Tunings ==
    {EqualTemperament}
        \cup {JustIntonation(key) : key \in KeyStrings}
        \cup {Pythagorean(key) : key \in KeyStrings}

\* The roundings of one call: of the tempered base frequency and of the
\* product with ratio / et_ratio.
Roundings == [base : Ulps, result : Ulps]

Double(value, ulp) == [value |-> value, ulp |-> ulp]

\* freq * 2.0: doubling a double is exact.
twice(f) ==
    Double(Freq(f.value.semis + SemitonesPerOctave, f.value.num, f.value.den),
           f.ulp)

\* 440.0 * pow(2.0, (note_number - 69) / 12): exact when the exponent is a
\* whole number, rounded otherwise.
base_freq(note_number, ulp) ==
    Double(EqualTemperament_frequency(note_number),
           IF (note_number - ReferenceMidi) % SemitonesPerOctave = 0
           THEN 0 ELSE ulp)

\* RatioBasedTuning.midi_note_number_to_frequency in doubles, with the
\* locals scale_degree and ratio.  At scale degree 0 et_ratio is 2 ** 0.0,
\* so with a ratio of 1.0 the factor is 1.0 and the product is base_freq.
RatioBasedTuning_midi_note_number_to_frequency(RATIOS, key, note_number, r) ==
    LET degree == scale_degree(key, note_number)
        exact == RatioBasedTuning_frequency(RATIOS, key, note_number)
    IN  IF exact = IndexError
        THEN [scale_degree |-> degree, frequency |-> IndexError]
        ELSE [scale_degree |-> degree,
              ratio |-> RATIOS[degree + 1],
              frequency |->
                  IF degree = 0 /\ RATIOS[1][1] = RATIOS[1][2]
                  THEN base_freq(note_number, r.base)
                  ELSE Double(exact, r.result)]

Tuning_midi_note_number_to_frequency(tuning, note_number, r) ==
    CASE tuning.cls = "EqualTemperament" ->
            [frequency |-> base_freq(note_number, r.base)]
      [] tuning.cls = "JustIntonation" ->
            RatioBasedTuning_midi_note_number_to_frequency(
                JustIntonation_RATIOS, tuning.key, note_number, r)
      [] tuning.cls = "Pythagorean" ->
            RatioBasedTuning_midi_note_number_to_frequency(
                Pythagorean_RATIOS, tuning.key, note_number, r)

\* The length and first entry of the tuning's ratio table.
RATIOS_of(tuning) ==
    IF tuning.cls = "JustIntonation" THEN JustIntonation_RATIOS
    ELSE Pythagorean_RATIOS

InitTuning ==
    /\ pc = "idle"
    /\ listening = {}
    /\ queue = <<>>
    /\ budget = 0
    /\ sent = [s \in Sources |-> 0]
    /\ theory = InitTheory
    /\ current_tuning = "EqualTemperament"
    /\ notes = InitApp.notes
    /\ engine = InitApp.engine
    /\ notifications = InitApp.notifications
    /\ app_notes = InitApp.app_notes
    /\ current_octave = InitApp.current_octave
    /\ octave = InitApp.octave
    /\ presses_to_note_numbers = InitApp.presses_to_note_numbers
    /\ applied = InitApp.applied
    /\ synth_name = ""
    /\ events = <<>>
    /\ probe \in [tuning : Tunings, note_number : Pitches, called : {FALSE}]
    /\ exception_handler = NoCalls
    /\ synth_list = ComposedList

\* tuning.midi_note_number_to_frequency(p), the same for p + 12, and the
\* Equal Temperament conversion of p.
midi_note_number_to_frequency_calls ==
    /\ probe # NoProbe
    /\ ~probe.called
    /\ \E r \in Roundings, r12 \in Roundings :
          probe' =
              [tuning |-> probe.tuning,
               note_number |-> probe.note_number,
               called |-> TRUE,
               at |-> Tuning_midi_note_number_to_frequency(
                          probe.tuning, probe.note_number, r),
               octave_up |-> Tuning_midi_note_number_to_frequency(
                          probe.tuning,
                          probe.note_number + SemitonesPerOctave, r12),
               equal_temperament |->
                   base_freq(probe.note_number, r.base)]
    /\ UNCHANGED <<pc, listening, queue, budget, sent, applied, notes,
                   engine, notifications, theory, app_notes, current_tuning,
                   current_octave, octave, presses_to_note_numbers,
                   synth_name, events, exception_handler, synth_list>>

NextTuning == midi_note_number_to_frequency_calls

TuningSpec == InitTuning /\ [][NextTuning]_vars

\* The calls of TuningSpec have returned, for a ratio-based tuning.
RatioBasedCalled ==
    /\ probe # NoProbe
    /\ probe.called
    /\ probe.tuning.cls # "EqualTemperament"

\* The calls of TuningSpec have returned, for Equal Temperament.
EqualTemperamentCalled ==
    /\ probe # NoProbe
    /\ probe.called
    /\ probe.tuning.cls = "EqualTemperament"

\* The tonic's chromatic degree, by key letter.
tonicDegree(key) ==
    CASE key = "C" -> 0
      [] key = "D" -> 2
      [] key = "E" -> 4
      [] key = "F" -> 5
      [] key = "G" -> 7
      [] key = "A" -> 9
      [] key = "B" -> 11

KeyLetters == {"C", "D", "E", "F", "G", "A", "B"}

(***************************************************************************)
(* C26: under a ratio-based tuning in any key, a pitch whose pitch class   *)
(* is the key's tonic degree has scale degree 0, ratio 1.0, and the very   *)
(* frequency, as a double, that Equal Temperament gives it.                *)
(***************************************************************************)
C26_TonicMatchesEqualTemperament ==
    (/\ RatioBasedCalled
     /\ probe.tuning.key \in KeyLetters
     /\ probe.note_number % SemitonesPerOctave = tonicDegree(probe.tuning.key))
        => /\ probe.at.scale_degree = 0
           /\ probe.at.frequency # IndexError
           /\ probe.at.ratio = <<1, 1>>
           /\ probe.at.frequency = probe.equal_temperament

C26_Witness ==
    /\ RatioBasedCalled
    /\ probe.tuning = Pythagorean("B")
    /\ probe.note_number = 71
    /\ probe.at.frequency = probe.equal_temperament
    /\ probe.equal_temperament.ulp # 0

(***************************************************************************)
(* C27, as stated: under a ratio-based tuning the frequency of pitch p+12, *)
(* as a double, is exactly twice the frequency of pitch p.                 *)
(***************************************************************************)
C27_OctaveExactlyTwice ==
    RatioBasedCalled =>
        probe.octave_up.frequency = twice(probe.at.frequency)

(***************************************************************************)
(* C27, amended: under a ratio-based tuning, in any key, pitches p and     *)
(* p+12 have the same scale degree and the same ratio entry, and the       *)
(* frequency of p+12 is twice the frequency of p as real numbers: the two  *)
(* doubles approximate the same real number.                               *)
(***************************************************************************)
C27_OctaveTwiceUpToRounding ==
    RatioBasedCalled =>
        /\ probe.at.frequency # IndexError
        /\ probe.octave_up.frequency # IndexError
        /\ probe.octave_up.scale_degree = probe.at.scale_degree
        /\ probe.octave_up.ratio = probe.at.ratio
        /\ probe.octave_up.frequency.value = twice(probe.at.frequency).value

C27_Witness ==
    /\ RatioBasedCalled
    /\ probe.tuning = JustIntonation("C")
    /\ probe.note_number = 10
    /\ probe.at.scale_degree = 10
    /\ probe.octave_up.frequency.value = twice(probe.at.frequency).value
    /\ probe.octave_up.frequency # twice(probe.at.frequency)

(***************************************************************************)
(* C28: the ratio-based frequency function is total.  For every pitch in   *)
(* 0..127 and every key string, a lower-case letter and a letter naming no *)
(* key included, the scale degree lies in 0..11 and indexes an entry of a  *)
(* ratio table of exactly 12 entries whose entry 0 is 1.0: the call        *)
(* returns a frequency and raises nothing.                                 *)
(***************************************************************************)
C28_FrequencyIsTotal ==
    RatioBasedCalled =>
        /\ Len(RATIOS_of(probe.tuning)) = 12
        /\ RATIOS_of(probe.tuning)[1] = <<1, 1>>
        /\ probe.at.scale_degree \in 0 .. 11
        /\ probe.at.scale_degree + 1 \in DOMAIN RATIOS_of(probe.tuning)
        /\ probe.at.frequency # IndexError
        /\ probe.octave_up.frequency # IndexError

C28_Witness ==
    /\ RatioBasedCalled
    /\ probe.tuning = JustIntonation("H")
    /\ probe.note_number = 8
    /\ probe.at.scale_degree = 11
    /\ probe.at.ratio = <<15, 8>>
    /\ probe.at.frequency # IndexError

\* Two exact frequencies are the same real number: 2^(k/12) is rational
\* only for k a multiple of 12.
SameReal(f, g) ==
    LET k == f.semis - g.semis
    IN  /\ k % SemitonesPerOctave = 0
        /\ IF k >= 0
           THEN f.num * 2^(k \div SemitonesPerOctave) * g.den = g.num * f.den
           ELSE f.num * g.den
                    = g.num * 2^((-k) \div SemitonesPerOctave) * f.den

(***************************************************************************)
(* C29: for every pitch p and key letter C, D, E, F, G, A, B the scale     *)
(* degree that picks the ratio is (p mod 12 - tonicDegree(key)) mod 12.    *)
(* Pitch 64 is degree 4, ratio 5/4, in key C and degree 7, ratio 3/2, in   *)
(* key A, and Just Intonation gives it different frequencies in the two    *)
(* keys.                                                                   *)
(***************************************************************************)
C29_ScaleDegreeIsKeyRelative ==
    /\ (RatioBasedCalled /\ probe.tuning.key \in KeyLetters) =>
          /\ probe.at.scale_degree
                = ((probe.note_number % 12) - tonicDegree(probe.tuning.key))
                      % 12
          /\ probe.at.ratio
                = RATIOS_of(probe.tuning)[probe.at.scale_degree + 1]
    /\ (RatioBasedCalled /\ probe.tuning = JustIntonation("C")
          /\ probe.note_number = 64) =>
          /\ probe.at.scale_degree = 4
          /\ probe.at.ratio = <<5, 4>>
          /\ ~SameReal(probe.at.frequency.value,
                       midi_note_number_to_frequency(JustIntonation("A"), 64))
    /\ (RatioBasedCalled /\ probe.tuning = JustIntonation("A")
          /\ probe.note_number = 64) =>
          /\ probe.at.scale_degree = 7
          /\ probe.at.ratio = <<3, 2>>
          /\ ~SameReal(probe.at.frequency.value,
                       midi_note_number_to_frequency(JustIntonation("C"), 64))

C29_Witness ==
    /\ RatioBasedCalled
    /\ probe.tuning = JustIntonation("A")
    /\ probe.note_number = 64
    /\ probe.at.scale_degree = 7
    /\ SameReal(probe.at.frequency.value, Freq(-12, 3, 2))
    /\ SameReal(midi_note_number_to_frequency(JustIntonation("C"), 64),
                Freq(-9, 5, 4))

\* 440.0, the double.
A440 == Double(Freq(0, 1, 1), 0)

(***************************************************************************)
(* C30, as stated: for every pitch p in 0..127 the Equal Temperament       *)
(* frequency of p+12, as a double, equals twice that of p, and the         *)
(* frequency of pitch 69 equals 440.0.                                     *)
(***************************************************************************)
C30_EqualTemperamentOctaveExactlyTwice ==
    EqualTemperamentCalled =>
        /\ probe.octave_up.frequency = twice(probe.at.frequency)
        /\ probe.note_number = ReferenceMidi => probe.at.frequency = A440

(***************************************************************************)
(* C30, amended: for every pitch p in 0..127 the Equal Temperament         *)
(* frequency of p+12 is twice that of p as real numbers, and the doubles   *)
(* are equal when p is a whole number of octaves from pitch 69; the        *)
(* frequency of pitch 69 is the double 440.0.                              *)
(***************************************************************************)
C30_EqualTemperamentOctaveTwiceUpToRounding ==
    EqualTemperamentCalled =>
        /\ probe.octave_up.frequency.value
               = twice(probe.at.frequency).value
        /\ (probe.note_number - ReferenceMidi) % 12 = 0 =>
               probe.octave_up.frequency = twice(probe.at.frequency)
        /\ probe.note_number = ReferenceMidi =>
               /\ probe.at.frequency = A440
               /\ probe.octave_up.frequency = twice(A440)

C30_Witness ==
    /\ EqualTemperamentCalled
    /\ probe.note_number = 10
    /\ probe.octave_up.frequency.value = twice(probe.at.frequency).value
    /\ probe.octave_up.frequency # twice(probe.at.frequency)

RECURSIVE GCD(_, _)
GCD(a, b) == IF b = 0 THEN a ELSE GCD(b, a % b)

\* f < g for exact frequencies: with k the semitone distance from f to g,
\* n1/d1 < 2^(k/12) * n2/d2, both sides raised to the power that makes the
\* exponent of 2 whole.
LessReal(f, g) ==
    LET k == g.semis - f.semis
        a == IF k >= 0 THEN k ELSE -k
        c == GCD(SemitonesPerOctave, a)
        m == SemitonesPerOctave \div c
        e == a \div c
        lhs == (f.num * g.den)^m
        rhs == (f.den * g.num)^m
    IN  IF k >= 0 THEN lhs < 2^e * rhs ELSE lhs * 2^e < rhs

\* x < y for doubles: rounding moves a double by a few units in the last
\* place, so doubles of different real numbers compare as those numbers.
LessDouble(x, y) ==
    \/ LessReal(x.value, y.value)
    \/ SameReal(x.value, y.value) /\ x.ulp < y.ulp

(***************************************************************************)
(* C31: for pitch 64 in key C, the major third, the Just Intonation        *)
(* frequency (ratio 5/4) is strictly below the Equal Temperament frequency *)
(* and the Pythagorean frequency (ratio 81/64) is strictly above it.       *)
(***************************************************************************)
C31_MajorThirdOrder ==
    /\ (RatioBasedCalled /\ probe.tuning = JustIntonation("C")
          /\ probe.note_number = 64) =>
          /\ probe.at.ratio = <<5, 4>>
          /\ LessDouble(probe.at.frequency, probe.equal_temperament)
    /\ (RatioBasedCalled /\ probe.tuning = Pythagorean("C")
          /\ probe.note_number = 64) =>
          /\ probe.at.ratio = <<81, 64>>
          /\ LessDouble(probe.equal_temperament, probe.at.frequency)
          /\ LessReal(midi_note_number_to_frequency(JustIntonation("C"), 64),
                      probe.at.frequency.value)

C31_Witness ==
    /\ RatioBasedCalled
    /\ probe.tuning = Pythagorean("C")
    /\ probe.note_number = 64
    /\ probe.at.scale_degree = 4
    /\ LessDouble(probe.equal_temperament, probe.at.frequency)
    /\ LessReal(midi_note_number_to_frequency(JustIntonation("C"), 64),
                probe.equal_temperament.value)

\* 2^(k/12) for k in 0..11, in units of 0.00001, rounded to nearest.
TwelfthRootPowers ==
    <<100000, 105946, 112246, 118921, 125992, 133484,
      141421, 149831, 158740, 168179, 178180, 188775>>

\* An exact frequency to the nearest hundredth of a hertz: 440 times the
\* tabulated power of the twelfth root of two, times the ratio, shifted by
\* whole octaves.  The table's rounding moves the result by less than 0.01 Hz
\* for frequencies below 1 kHz.
CentiHz(f) ==
    LET k == f.semis % SemitonesPerOctave
        oct == (f.semis - k) \div SemitonesPerOctave
        in_octave == (440 * TwelfthRootPowers[k + 1] * f.num) \div f.den
        shifted == IF oct >= 0 THEN in_octave * 2^oct
                   ELSE in_octave \div 2^(-oct)
    IN  (shifted + 500) \div 1000

\* f lies more than 12 and less than 15 cents below g: 2^(-15/1200) is
\* 0.99137..., 2^(-12/1200) is 0.99309..., rounded inwards to 0.0001.
FlatBy12To15Cents(f, g) ==
    /\ CentiHz(f) * 10000 > CentiHz(g) * 9914
    /\ CentiHz(f) * 10000 < CentiHz(g) * 9930

\* A frequency given to one decimal place: h tenths of a hertz.
AboutHz(f, tenths) ==
    /\ CentiHz(f) >= tenths * 10 - 5
    /\ CentiHz(f) < tenths * 10 + 5

\* The calls of TuningSpec have returned for pitch 64 under Just Intonation
\* in C.
JustCMajorThirdCalled ==
    /\ RatioBasedCalled
    /\ probe.tuning = JustIntonation("C")
    /\ probe.note_number = 64

(***************************************************************************)
(* C32, as stated: under Just Intonation in key C, pitch 64 is between 12  *)
(* and 15 cents below its Equal Temperament frequency of 329.63 Hz, about  *)
(* 326.6 Hz.                                                               *)
(***************************************************************************)
C32_MajorThirdAbout326_6Hz ==
    JustCMajorThirdCalled =>
        /\ CentiHz(probe.equal_temperament.value) = 32963
        /\ FlatBy12To15Cents(probe.at.frequency.value,
                             probe.equal_temperament.value)
        /\ AboutHz(probe.at.frequency.value, 3266)

(***************************************************************************)
(* C32, amended: under Just Intonation in key C, pitch 64 is between 12    *)
(* and 15 cents below its Equal Temperament frequency of 329.63 Hz, about  *)
(* 327.0 Hz.                                                               *)
(***************************************************************************)
C32_MajorThirdAbout327_0Hz ==
    JustCMajorThirdCalled =>
        /\ CentiHz(probe.equal_temperament.value) = 32963
        /\ FlatBy12To15Cents(probe.at.frequency.value,
                             probe.equal_temperament.value)
        /\ AboutHz(probe.at.frequency.value, 3270)

C32_Witness ==
    /\ JustCMajorThirdCalled
    /\ probe.at.ratio = <<5, 4>>
    /\ CentiHz(probe.at.frequency.value) = 32703
    /\ CentiHz(probe.equal_temperament.value) = 32963

(***************************************************************************)
(* C33: in every state reached by MIDI and keyboard commands and tuning    *)
(* changes, the frequency and velocity the app's note view holds for a     *)
(* sounding pitch are the ones its voice was created with at note-on.      *)
(***************************************************************************)
C33_ObserverHoldsNoteOnValues ==
    \A p \in DOMAIN notes \cap DOMAIN app_notes :
        /\ app_notes[p].frequency = engine[notes[p]].frequency
        /\ midi_velocity_to_amplitude(app_notes[p].velocity)
               = engine[notes[p]].amplitude

(***************************************************************************)
(* DuoSpec: the running app with both listeners delivering notes: MIDI     *)
(* keys, and keyboard keys of which "a" at one octave and "k" an octave    *)
(* below give the same pitch, 60 from the start for "a".                   *)
(***************************************************************************)
MaxDuoEvents == 4

DuoKeyChars == {"a", "k", "z"}
DuoVelocities == {100}

InitDuo == InitRunning(MaxDuoEvents)

NextDuo ==
    \/ MidiHandler_handle(MidiFuncs, DuoVelocities)
    \/ QwertyHandler_on_press(DuoKeyChars)
    \/ QwertyHandler_on_release(DuoKeyChars)
    \/ process_message

DuoSpec == InitDuo /\ [][NextDuo]_vars

(***************************************************************************)
(* C34: after every applied MIDI or keyboard command the pitches in the    *)
(* app's note view are exactly the pitches in the voice registry, for any  *)
(* interleaving of commands from both sources.                             *)
(***************************************************************************)
C34_ViewMatchesRegistry ==
    DOMAIN app_notes = DOMAIN notes

\* A MIDI key and a keyboard key both started pitch 60 and the keyboard key
\* was released: view and registry both dropped the pitch.
C34_Witness ==
    /\ Len(applied) = 3
    /\ applied[1].call = NoteOnCall(60, 100)
    /\ applied[2].call = NoteOnCall(60, QwertyVelocity)
    /\ applied[3].call = NoteOffCall(60)
    /\ applied[3].msg.src = "qwerty"
    /\ DOMAIN app_notes = {}
    /\ DOMAIN notes = {}

(***************************************************************************)
(* PolySpec: a PolyphonyManager on its own, its three operations called in *)
(* any order by whoever holds it.                                          *)
(***************************************************************************)
MaxPolyOps == 4

PolyVelocities == {64, 100}

InitPoly ==
    /\ pc = "idle"
    /\ listening = {}
    /\ queue = <<>>
    /\ budget = MaxPolyOps
    /\ sent = [s \in Sources |-> 0]
    /\ theory = InitTheory
    /\ current_tuning = "EqualTemperament"
    /\ notes = InitApp.notes
    /\ engine = InitApp.engine
    /\ notifications = InitApp.notifications
    /\ app_notes = InitApp.app_notes
    /\ current_octave = InitApp.current_octave
    /\ octave = InitApp.octave
    /\ presses_to_note_numbers = InitApp.presses_to_note_numbers
    /\ applied = InitApp.applied
    /\ synth_name = ""
    /\ events = <<>>
    /\ probe = NoProbe
    /\ exception_handler = NoCalls
    /\ synth_list = ComposedList

PolyphonyManager_note_on ==
    /\ budget > 0
    /\ budget' = budget - 1
    /\ \E note_number \in MidiNotes, velocity \in PolyVelocities :
          Becomes(WithPM(Cur, note_on(PM(Cur), theory, note_number, velocity)))
    /\ UNCHANGED <<pc, listening, queue, sent, theory, current_tuning,
                   synth_name, events, probe, exception_handler,
                   synth_list>>

PolyphonyManager_note_off ==
    /\ budget > 0
    /\ budget' = budget - 1
    /\ \E note_number \in MidiNotes :
          Becomes(WithPM(Cur, note_off(PM(Cur), note_number)))
    /\ UNCHANGED <<pc, listening, queue, sent, theory, current_tuning,
                   synth_name, events, probe, exception_handler,
                   synth_list>>

PolyphonyManager_free_all ==
    /\ budget > 0
    /\ budget' = budget - 1
    /\ Becomes(WithPM(Cur, free_all(PM(Cur))))
    /\ UNCHANGED <<pc, listening, queue, sent, theory, current_tuning,
                   synth_name, events, probe, exception_handler,
                   synth_list>>

NextPoly ==
    \/ PolyphonyManager_note_on
    \/ PolyphonyManager_note_off
    \/ PolyphonyManager_free_all

PolySpec == InitPoly /\ [][NextPoly]_vars

(***************************************************************************)
(* C35: over any sequence of noteOn, noteOff and freeAll operations every  *)
(* engine voice handle receives a free request at most once.               *)
(***************************************************************************)
C35_FreedAtMostOnce ==
    \A h \in DOMAIN engine : engine[h].frees <= 1

(***************************************************************************)
(* StuckSpec: play.py's QwertyHandler with a note key and the octave-up    *)
(* key, pressed, repeated by the keyboard while held, and released.        *)
(***************************************************************************)
MaxStuckEvents == 5

StuckKeyChars == {"a", "x"}

InitStuck == InitRunning(MaxStuckEvents)

NextStuck ==
    \/ play_QwertyHandler_on_press(StuckKeyChars)
    \/ play_QwertyHandler_on_release(StuckKeyChars)

StuckSpec == InitStuck /\ [][NextStuck]_vars

\* Every keyboard key that was pressed has been released since.
EveryKeyReleased ==
    \A i \in DOMAIN applied :
        applied[i].msg.type = "HandleKeyPress" =>
            \E j \in (i + 1) .. Len(applied) :
                IsRelease(j, applied[i].msg.key_char)

\* Command k is a MIDI message that starts, or that stops, pitch p.
IsMidiNoteOn(k, p) ==
    /\ IsMidi(k)
    /\ applied[k].msg.note_number = p
    /\ applied[k].msg.func \in NoteOnStatus
    /\ applied[k].msg.velocity > 0

IsMidiNoteOff(k, p) ==
    /\ IsMidi(k)
    /\ applied[k].msg.note_number = p
    /\ \/ applied[k].msg.func \in NoteOffStatus
       \/ applied[k].msg.func \in NoteOnStatus /\ applied[k].msg.velocity = 0

\* Every MIDI note-on has been followed by its note-off.
EveryMidiNoteOff ==
    \A i \in DOMAIN applied : \A p \in MidiNotes :
        IsMidiNoteOn(i, p) =>
            \E j \in (i + 1) .. Len(applied) : IsMidiNoteOff(j, p)

(***************************************************************************)
(* C36: no note is left stuck.  Whenever every keyboard key has been       *)
(* released, every MIDI note-on has been followed by its note-off and      *)
(* every enqueued command has been applied, the voice registry is empty.   *)
(***************************************************************************)
C36_NoStuckNote ==
    (EveryKeyReleased /\ EveryMidiNoteOff /\ queue = <<>>)
        => DOMAIN notes = {}

\* The input a command came from: the MIDI key or the keyboard key.
InputOf(k) ==
    IF IsMidi(k) THEN <<"midi", applied[k].msg.note_number>>
    ELSE <<"qwerty", applied[k].msg.key_char>>

\* Command i started the voice that pitch p has when command k is applied.
StartedVoice(i, k, p) ==
    /\ i < k
    /\ IsNoteOn(i, p)
    /\ ~RegisteredBefore(i, p)
    /\ \A j \in (i + 1) .. (k - 1) : ~IsNoteOff(j, p)

\* Command k is a release of the input that command j came from.
ReleaseOf(k, j) ==
    /\ InputOf(k) = InputOf(j)
    /\ \/ applied[k].msg.type = "HandleKeyRelease"
       \/ IsMidiNoteOff(k, applied[k].msg.note_number)

(***************************************************************************)
(* C37: a voice is stopped only by a release from the input that started   *)
(* it.  When command i started the voice of pitch p, command j from        *)
(* another input was a NoteOn for p that did nothing, and command k is the *)
(* release of that other input while the first is still held, command k    *)
(* does not stop the voice.                                                *)
(***************************************************************************)
C37_StoppedByItsStarter ==
    \A k \in DOMAIN applied : \A i, j \in 1 .. (k - 1) :
        (/\ i < j
         /\ applied[j].call.op = "note_on"
         /\ StartedVoice(i, k, applied[j].call.note_number)
         /\ InputOf(j) # InputOf(i)
         /\ ReleaseOf(k, j))
            => ~IsNoteOff(k, applied[j].call.note_number)

(***************************************************************************)
(* ExcSpec: exception_handler.py.  A listener's thread gives a wrapped     *)
(* callable to call_from_thread, the wrapper runs it in the app's thread,  *)
(* and when call_from_thread is over the listener's thread calls           *)
(* check_call_from_thread_exception.  _exception_store is a                *)
(* threading.local: each thread reads and writes its own attribute.        *)
(***************************************************************************)
MaxCalls == 3

Callables == {"returns", "raises"}
Contexts == {"MIDI", "Keyboard"}

InitExc == InitRunning(0)

\* wrapped = wrap_call_from_thread(func, context); app.call_from_thread(wrapped)
\* issued on a listener's thread.
call_from_thread ==
    /\ exception_handler.pc = "idle"
    /\ ~exception_handler.crashed
    /\ Len(exception_handler.checks) < MaxCalls
    /\ \E t \in Threads \ {"ui"}, func \in Callables, context \in Contexts :
          exception_handler' =
              [exception_handler EXCEPT !.pc = "issued", !.caller = t,
                                        !.func = func, !.context = context]
    /\ UNCHANGED <<pc, listening, queue, budget, sent, applied, notes, engine,
                   notifications, theory, app_notes, current_tuning,
                   current_octave, octave, presses_to_note_numbers,
                   synth_name, events, probe, synth_list>>

\* wrapper(), run by the app in its own thread: on an exception
\* _exception_store.exception = (e, context), then raise.
wrapper ==
    /\ exception_handler.pc = "issued"
    /\ exception_handler' =
          [exception_handler EXCEPT
              !.pc = "returned",
              !.store["ui"] =
                  IF exception_handler.func = "raises"
                  THEN [exc |-> "Exception",
                        context |-> exception_handler.context]
                  ELSE @]
    /\ UNCHANGED <<pc, listening, queue, budget, sent, applied, notes, engine,
                   notifications, theory, app_notes, current_tuning,
                   current_octave, octave, presses_to_note_numbers,
                   synth_name, events, probe, synth_list>>

\* check_call_from_thread_exception() on the thread that issued the call:
\* hasattr(_exception_store, 'exception') looks in that thread's storage;
\* a stored exception is deleted and log_and_crash ends in os._exit(1).
check_call_from_thread_exception ==
    /\ exception_handler.pc = "returned"
    /\ LET t == exception_handler.caller
           found == exception_handler.store[t] # NoException
       IN  exception_handler' =
               [exception_handler EXCEPT
                   !.pc = "idle",
                   !.store[t] = NoException,
                   !.crashed = found,
                   !.checks = Append(@, [caller |-> t,
                                         func |-> exception_handler.func,
                                         context |-> exception_handler.context,
                                         crashed |-> found])]
    /\ UNCHANGED <<pc, listening, queue, budget, sent, applied, notes, engine,
                   notifications, theory, app_notes, current_tuning,
                   current_octave, octave, presses_to_note_numbers,
                   synth_name, events, probe, synth_list>>

NextExc ==
    \/ call_from_thread
    \/ wrapper
    \/ check_call_from_thread_exception

ExcSpec == InitExc /\ [][NextExc]_vars

(***************************************************************************)
(* C38: if the wrapped callable raised while it ran in the app's thread,   *)
(* check_call_from_thread_exception, called on the issuing thread right    *)
(* after call_from_thread, finds the stored exception and crashes the      *)
(* program; when nothing was raised the check does nothing.                *)
(***************************************************************************)
C38_CheckCrashesOnStoredException ==
    \A i \in DOMAIN exception_handler.checks :
        exception_handler.checks[i].crashed
            <=> exception_handler.checks[i].func = "raises"

(***************************************************************************)
(* SynthListSpec: the synth list of the running app.  A reload of synths.py *)
(* assigns available_synths and the watcher edits the ListView in place;    *)
(* the user moves the highlight.                                            *)
(***************************************************************************)
\* The loop of watch_available_synths with the increment of insert_index
\* left out where an item of new is smaller than the item of old.
RECURSIVE merge_edits_stale_insert_index(_, _, _, _, _, _, _)
merge_edits_stale_insert_index(old, new, i, j, insert_index, removes, inserts) ==
    IF ~(i < Len(old) \/ j < Len(new))
    THEN [removes |-> removes, inserts |-> inserts]
    ELSE IF i >= Len(old)
    THEN merge_edits_stale_insert_index(old, new, i, j + 1, insert_index + 1,
             removes, Append(inserts, <<insert_index, new[j + 1]>>))
    ELSE IF j >= Len(new)
    THEN merge_edits_stale_insert_index(old, new, i + 1, j, insert_index,
             Append(removes, i), inserts)
    ELSE IF old[i + 1] = new[j + 1]
    THEN merge_edits_stale_insert_index(old, new, i + 1, j + 1,
             insert_index + 1, removes, inserts)
    ELSE IF str_rank(old[i + 1]) < str_rank(new[j + 1])
    THEN merge_edits_stale_insert_index(old, new, i + 1, j, insert_index,
             Append(removes, i), inserts)
    ELSE merge_edits_stale_insert_index(old, new, i, j + 1, insert_index,
             removes, Append(inserts, <<insert_index, new[j + 1]>>))

\* The while loop of watch_available_synths from the state (i, j,
\* insert_index, removes, inserts); i and j count from 0 as in the source.
RECURSIVE merge_edits(_, _, _, _, _, _, _)
merge_edits(old, new, i, j, insert_index, removes, inserts) ==
    IF ~(i < Len(old) \/ j < Len(new))
    THEN [removes |-> removes, inserts |-> inserts]
    ELSE IF i >= Len(old)
    THEN merge_edits(old, new, i, j + 1, insert_index + 1, removes,
                     Append(inserts, <<insert_index, new[j + 1]>>))
    ELSE IF j >= Len(new)
    THEN merge_edits(old, new, i + 1, j, insert_index,
                     Append(removes, i), inserts)
    ELSE IF old[i + 1] = new[j + 1]
    THEN merge_edits(old, new, i + 1, j + 1, insert_index + 1,
                     removes, inserts)
    ELSE IF str_rank(old[i + 1]) < str_rank(new[j + 1])
    THEN merge_edits(old, new, i + 1, j, insert_index,
                     Append(removes, i), inserts)
    ELSE merge_edits(old, new, i, j + 1, insert_index + 1, removes,
                     Append(inserts, <<insert_index, new[j + 1]>>))

\* ListView.remove_items(indices): the items at these positions (counted
\* from 0 in the list as it is before the call) leave the list.
RECURSIVE remove_items(_, _)
remove_items(items, indices) ==
    IF items = <<>> THEN <<>>
    ELSE LET n == Len(items)
             front == remove_items(SubSeq(items, 1, n - 1), indices)
         IN  IF n - 1 \in Range(indices) THEN front
             ELSE Append(front, items[n])

\* ListView.insert(index, [item]): the item goes before position index,
\* at the end when index is the length of the list.
insert(items, index, item) ==
    LET at == Min(index, Len(items))
    IN  SubSeq(items, 1, at) \o <<item>> \o SubSeq(items, at + 1, Len(items))

\* for (idx, item) in inserts: await self.synth_list.insert(idx, [item])
RECURSIVE insert_each(_, _)
insert_each(items, inserts) ==
    IF inserts = <<>> THEN items
    ELSE insert_each(insert(items, Head(inserts)[1], Head(inserts)[2]),
                     Tail(inserts))

\* ListView.highlighted_child: the item at index, None without one.
highlighted_child(list) ==
    IF list.index # None /\ list.index \subseteq 0 .. (Len(list.items) - 1)
    THEN {list.items[k + 1] : k \in list.index}
    ELSE None

\* new.index(name)
list_index(list, name) == (CHOOSE k \in DOMAIN list : list[k] = name) - 1

\* The target_index of watch_available_synths.
target_index(current_highlight, new, removes) ==
    IF current_highlight # None /\ current_highlight \subseteq Range(new)
    THEN list_index(new, CHOOSE name \in current_highlight : TRUE)
    ELSE IF removes # <<>>
         THEN Min(removes[1], Len(new) - 1)
         ELSE 0

\* app.activate_synth(item) for the highlighted child, when there is one.
activate_highlighted(list) ==
    IF highlighted_child(list) = None
    THEN UNCHANGED <<theory, synth_name>>
    ELSE LET name == CHOOSE n \in highlighted_child(list) : TRUE
         IN  /\ theory' = [theory EXCEPT !.synthdef = name]
             /\ synth_name' = name

InitSynthList == InitRunning(0)

\* available_synths = new: watch_available_synths(old, new) runs whole.
watch_available_synths ==
    /\ PumpRunning
    /\ \E names \in SUBSET Range(ReloadableSynths) :
          LET old == sorted(synth_list.available_synths)
              new == sorted(names)
              edits == merge_edits(old, new, 0, 0, 0, <<>>, <<>>)
              current_highlight == highlighted_child(synth_list)
              items == insert_each(remove_items(synth_list.items,
                                                edits.removes),
                                   edits.inserts)
              after == [available_synths |-> names, items |-> items,
                        index |-> {target_index(current_highlight, new,
                                                edits.removes)},
                        watched |-> TRUE, old |-> old, new |-> new,
                        removes |-> edits.removes,
                        inserts |-> edits.inserts,
                        current_highlight |-> current_highlight]
          IN  /\ synth_list' = after
              /\ activate_highlighted(after)
    /\ UNCHANGED <<pc, listening, queue, budget, sent, current_tuning, events>>
    /\ UNCHANGED appVars
    /\ UNCHANGED <<probe, exception_handler>>

\* The user moves the highlight: ListView.Highlighted reaches
\* on_list_view_highlighted, which activates the item when there is one.
on_list_view_highlighted ==
    /\ PumpRunning
    /\ \E index \in {{k} : k \in 0 .. (Len(synth_list.items) - 1)} :
          LET after == [synth_list EXCEPT !.index = index, !.watched = FALSE]
          IN  /\ index # synth_list.index
              /\ synth_list' = after
              /\ activate_highlighted(after)
    /\ UNCHANGED <<pc, listening, queue, budget, sent, current_tuning, events>>
    /\ UNCHANGED appVars
    /\ UNCHANGED <<probe, exception_handler>>

NextSynthList ==
    \/ watch_available_synths
    \/ on_list_view_highlighted

SynthListSpec == InitSynthList /\ [][NextSynthList]_vars

\* new is in ascending order of str_rank and has no duplicates.
StrictlyAscending(list) ==
    \A k \in 1 .. (Len(list) - 1) : str_rank(list[k]) < str_rank(list[k + 1])

\* C39: after watch_available_synths(old, new), removing the indices in
\* removes from sorted(old) and then performing the inserts in order gives
\* exactly sorted(new), which is what the ListView then shows; the highlight
\* is on the synth highlighted before when new still has it, and otherwise on
\* an index within 0..len(new)-1 whenever new is not empty.
C39_EditsYieldSortedNew ==
    synth_list.watched =>
        LET old == synth_list.old
            new == synth_list.new
            kept == synth_list.current_highlight
        IN  /\ StrictlyAscending(old) /\ StrictlyAscending(new)
            /\ Range(new) = synth_list.available_synths
            /\ insert_each(remove_items(old, synth_list.removes),
                           synth_list.inserts) = new
            /\ synth_list.items = new
            /\ IF kept # None /\ kept \subseteq Range(new)
               THEN highlighted_child(synth_list) = kept
               ELSE new # <<>> =>
                       \E k \in 0 .. (Len(new) - 1) : synth_list.index = {k}

\* The highlighted last item "organ" is removed and "simple_sine" takes its
\* place: one remove, one insert, and the highlight stays on index 2.
C39_Witness ==
    /\ synth_list.watched
    /\ synth_list.old = <<"bell", "mockingboard", "organ">>
    /\ synth_list.current_highlight = {"organ"}
    /\ synth_list.new = <<"bell", "mockingboard", "simple_sine">>
    /\ synth_list.removes = <<2>>
    /\ synth_list.inserts = <<<<2, "simple_sine">>>>
    /\ synth_list.items = synth_list.new
    /\ synth_list.index = {2}
    /\ synth_name = "simple_sine"

=============================================================================
